---- MODULE Spec2Model ----
(***************************************************************************)
(* The per-tick collision classification and stability layer of            *)
(* PhysicsContainer.tsx (one mounted PhysicsContainer instance): the       *)
(* useFrame callback with its three passes and its metrics/status tail,    *)
(* the stall-check interval, the reset / speed-initialisation effects, and *)
(* the rigid-body engine as the environment.                               *)
(*                                                                         *)
(* Units.  Speeds and velocity components are integers in units of 0.005   *)
(* (so 0.005 = 1, 0.01 = 2, 0.05 = 10, 10.0 = 2000, 100 = 20000); lengths  *)
(* are integers in units of 0.01; times are integer milliseconds, the      *)
(* value of Date.now().  The code's Date.now() / 1000 is kept in           *)
(* milliseconds, and a duration given in seconds is compared in            *)
(* milliseconds.  A JavaScript number that is NaN or infinite is one of    *)
(* the three values NaN, PosInf, NegInf below.  One processed tick reads   *)
(* the clock several times: the first read (line 686) is the clock before  *)
(* the tick, every later read the clock after it; FrameStep keeps both in  *)
(* one millisecond, FrameStepAcross lets time pass between them.           *)
(***************************************************************************)
EXTENDS Integers, Sequences, FiniteSets, TLC

\* ------------------------------------------------------------------ bounds
MaxParticles == 2        \* bodies
MaxFrames == 30          \* processed ticks of a run that reaches the status check
ShortRunFrames == 2      \* processed ticks of a short run
WatchdogFrames == 1      \* processed ticks of a run that watches the stall check
MaxResets == 1           \* runs of the reset effect after the mount
MaxClockSteps == 3       \* steps of the wall clock
ClockStep == 750         \* ms
MaxStallSteps == 4       \* steps of the wall clock while watching for a stall
StallClockStep == 3000   \* ms
StartTime == 10000       \* Date.now() at mount
MaxCallbackLatency == 1  \* ms that pass while one frame callback runs
LoggingFrames == 4       \* processed ticks of a run that counts console diagnostics
MaxDiagnostics == 8      \* console diagnostics counted
StalledCallback == 600   \* ms for which a frame callback can be held up

\* ------------------------------------------------- IEEE values of a number
PosInf == 1000000000
NegInf == -1000000000
NaN == 1000000001

IsNaN(a) == a = NaN
IsFinite(a) == a # NaN /\ a # PosInf /\ a # NegInf
Abs(a) == IF a < 0 THEN -a ELSE a
Min(a, b) == IF a < b THEN a ELSE b
Max(a, b) == IF a > b THEN a ELSE b

\* a > b of two JavaScript numbers: false when either is NaN
Gt(a, b) == ~IsNaN(a) /\ ~IsNaN(b) /\ a > b
Lt(a, b) == ~IsNaN(a) /\ ~IsNaN(b) /\ a < b

\* a + b of a running total and a speed (both >= 0, NaN or PosInf)
AddNum(a, b) ==
  IF IsNaN(a) \/ IsNaN(b) THEN NaN
  ELSE IF a = PosInf \/ b = PosInf THEN PosInf
  ELSE a + b

RECURSIVE SqrtSearch(_, _, _)
SqrtSearch(n, lo, hi) ==
  IF lo >= hi THEN lo
  ELSE LET mid == (lo + hi + 1) \div 2
       IN IF mid * mid <= n THEN SqrtSearch(n, mid, hi)
          ELSE SqrtSearch(n, lo, mid - 1)

\* Math.sqrt on a finite n >= 0, rounded down to the unit
Sqrt(n) == SqrtSearch(n, 0, Min(n, 46340))

Vec(x, y, z) == [x |-> x, y |-> y, z |-> z]

\* Math.sqrt(vel.x * vel.x + vel.y * vel.y + vel.z * vel.z)
SpeedOf(vel) ==
  IF IsNaN(vel.x) \/ IsNaN(vel.y) \/ IsNaN(vel.z) THEN NaN
  ELSE IF ~IsFinite(vel.x) \/ ~IsFinite(vel.y) \/ ~IsFinite(vel.z) THEN PosInf
  ELSE SqrtSearch(vel.x * vel.x + vel.y * vel.y + vel.z * vel.z,
                  Max(Abs(vel.x), Max(Abs(vel.y), Abs(vel.z))),
                  Min(46340, Abs(vel.x) + Abs(vel.y) + Abs(vel.z)))

\* c * (num / den) for a finite component c and finite num > 0, den >= 0:
\* den = 0 makes the scale Infinity, and 0 * Infinity is NaN
ScaleComponent(c, num, den) ==
  IF den = 0
  THEN IF c = 0 THEN NaN ELSE IF c > 0 THEN PosInf ELSE NegInf
  ELSE IF c >= 0 THEN (c * num) \div den ELSE -(((-c) * num) \div den)

ScaleVec(vel, num, den) ==
  Vec(ScaleComponent(vel.x, num, den),
      ScaleComponent(vel.y, num, den),
      ScaleComponent(vel.z, num, den))

\* ---------------------------------------------------------------- constants
BASE_CONTAINER_SIZE == 250
particleSize == 8
DefaultRestitution == 999
MinContainerScale == 80
MaxContainerScale == 200
WarningThreshold == 10       \* DENSITY_WARNINGS.warningThreshold, in units of 0.01
CriticalThreshold == 20      \* DENSITY_WARNINGS.criticalThreshold, in units of 0.01
wallProximityThreshold == 2
proximityThreshold == 5
localDensityRadius == 50
localDensityThreshold == 3
InvalidComponentLimit == 20000
GuardSpeedCap == 400
DefaultOriginalSpeed == 100
ActiveSpeedFloor == 2
ReseedSpeedFloor == 10
ReseedSpeedCap == 200
HardSpeedCap == 2000
BoostSpeedCap == 1000
LowFrictionSpeedFloor == 20
LowFrictionLimit == 50
ActivitySpeedFloor == 2
CollisionReportPeriod == 500
StatusCheckPeriod == 30
StuckCheckPeriod == 1000
StallTimeout == 5000
StallMovementFloor == 1
StallSpeedCap == 400
IssueLogLimit == 5
VelocityCheckDelay == 1000
SpeedSamplePeriod == 500     \* App.tsx: the speed-history interval, in ms
HistoryLimit == 100          \* App.tsx: samples kept in a history

\* ------------------------------------------------------------------- state
VARIABLES
  now,                        \* Date.now(), in ms
  particleParticleFriction,   \* props
  particleWallFriction,
  frictionCoefficient,        \* in units of 0.001
  collisionFadeDuration,      \* in ms
  initialVelocity,
  particleCount,
  particleRadius,             \* the particleSize prop (the radius of line 131), in units of 0.01
  restitution,                \* in units of 0.001
  dynamicContainerSize,
  linvel,                     \* engine: linear velocity of each body
  translation,                \* engine: position of each body
  deadHandles,                \* engine: bodies whose every call throws
  particleSpeeds,             \* refs of the component
  particleCollisionStatus,
  particleMaterials,
  particlePositions,
  previousVelocities,
  collisionCounter,
  lastReportedCollisionTime,
  lastActivityTime,
  statusCheckCounter,
  stuckLastResetTime,
  frameCounter,
  simulationActive,
  hasDetectedIssue,
  resetCounter,
  lastTick,                   \* observation: what the latest processed tick did
  lastFlushAt,                \* observation: time of the latest onCollisionCountUpdate call
  collidingSince,             \* observation: since when each particle is continuously colliding
  watchdog,                   \* observation: what the stall-check interval did so far
  recentFrames,               \* observation: for each of the latest frames under the current
                              \* configuration, whether the passes ran
  debugIssues,                \* DEBUG.issues
  velocityCheckTimer,         \* when the pending initial velocity check fires, 0 when none is pending
  consoleDiagnostics,         \* observation: console.warn and console.error calls so far
  speedHistory,               \* host: the speedHistory state of App.tsx
  renderedSpeed,              \* host: currentSpeed as of the latest run of the speed-history effect
  speedTimerDue,              \* host: when the speed-history interval fires next
  lastSample                  \* observation: how many samples were appended to speedHistory, the latest when

props == <<particleParticleFriction, particleWallFriction, frictionCoefficient,
           collisionFadeDuration, initialVelocity, particleCount, particleRadius,
           restitution, dynamicContainerSize>>
engine == <<linvel, translation, deadHandles>>
refs == <<particleSpeeds, particleCollisionStatus, particleMaterials, particlePositions,
          previousVelocities, collisionCounter, lastReportedCollisionTime,
          lastActivityTime, statusCheckCounter, stuckLastResetTime, frameCounter>>
reactState == <<simulationActive, hasDetectedIssue, resetCounter>>
observed == <<lastTick, lastFlushAt, collidingSince, watchdog, recentFrames>>
diagnostics == <<debugIssues, velocityCheckTimer, consoleDiagnostics>>
host == <<speedHistory, renderedSpeed, speedTimerDue, lastSample>>
vars == <<now, props, engine, refs, reactState, observed, diagnostics, host>>

Bodies(count) == 0 .. (count - 1)
Particles == Bodies(particleCount)

\* one statement after another: Body applied to the value of an expression
With(value, Body(_)) == CHOOSE result \in { Body(v) : v \in {value} } : TRUE

\* Map.set(k, v) on a map held as a function with a finite domain
Put(m, k, v) == [i \in (DOMAIN m) \cup {k} |-> IF i = k THEN v ELSE m[i]]
EmptyMap == [i \in {} |-> 0]

\* ------------------------------------------------------------ pure helpers
\* the largest integer whose cube is at most n
RECURSIVE CbrtSearch(_, _, _)
CbrtSearch(n, lo, hi) ==
  IF lo >= hi THEN lo
  ELSE LET mid == (lo + hi + 1) \div 2
       IN IF mid * mid * mid <= n THEN CbrtSearch(n, mid, hi)
          ELSE CbrtSearch(n, lo, mid - 1)

\* Math.pow(n, 1/3) on a finite n >= 0, rounded down to the unit
Cbrt(n) == CbrtSearch(n, 0, Min(n, 1290))

\* getContainerSize(count): BASE_CONTAINER_SIZE scaled by the cube root of
\* count / 100, the scale (in units of 0.01) kept within 0.8 .. 2.0
getContainerSize(count) ==
  LET scaleFactor == Cbrt(count * 10000)
      boundedScaleFactor == Max(MinContainerScale, Min(MaxContainerScale, scaleFactor))
  IN (BASE_CONTAINER_SIZE * boundedScaleFactor) \div 100

\* the containerSize memo (lines 275-278)
containerSize ==
  IF dynamicContainerSize THEN getContainerSize(particleCount) ELSE BASE_CONTAINER_SIZE

halfSize == containerSize \div 2

\* Math.sign
Sign(a) == IF IsNaN(a) THEN NaN ELSE IF a > 0 THEN 1 ELSE IF a < 0 THEN -1 ELSE 0
SignEq(a, b) == ~IsNaN(Sign(a)) /\ ~IsNaN(Sign(b)) /\ Sign(a) = Sign(b)

hasInvalidVelocity(vel) ==
  \/ IsNaN(vel.x) \/ IsNaN(vel.y) \/ IsNaN(vel.z)
  \/ ~IsFinite(vel.x) \/ ~IsFinite(vel.y) \/ ~IsFinite(vel.z)
  \/ Gt(Abs(vel.x), InvalidComponentLimit)
  \/ Gt(Abs(vel.y), InvalidComponentLimit)
  \/ Gt(Abs(vel.z), InvalidComponentLimit)

\* a direction (sin(theta)cos(phi), sin(theta)sin(phi), cos(theta)) as an
\* integer vector over a common denominator d
Directions ==
  { [x |-> 1, y |-> 0, z |-> 0, d |-> 1],
    [x |-> 0, y |-> -3, z |-> 4, d |-> 5] }

\* speed * (sin(theta)cos(phi), sin(theta)sin(phi), cos(theta))
RandomVelocity(speed, dir) ==
  Vec(ScaleComponent(dir.x, speed, dir.d),
      ScaleComponent(dir.y, speed, dir.d),
      ScaleComponent(dir.z, speed, dir.d))

\* squared distance of two positions (position.distanceTo(otherPos) squared)
Dist2(p, q) ==
  (p.x - q.x) * (p.x - q.x) + (p.y - q.y) * (p.y - q.y) + (p.z - q.z) * (p.z - q.z)

\* a * b / c rounded down, for b >= 0 and a, c > 0, without forming a * b
MulDiv(a, b, c) == (b \div c) * a + ((b % c) * a) \div c

\* rem / c to `digits` decimal places, as an integer, for 0 <= rem < c
RECURSIVE LongDivide(_, _, _)
LongDivide(rem, c, digits) ==
  IF digits = 0 THEN 0
  ELSE ((rem * 10) \div c) * 10 ^ (digits - 1) + LongDivide((rem * 10) % c, c, digits - 1)

\* the particleDensity memo, in units of 0.0001: min(1.0, volume ratio * 10),
\* with Math.PI taken as 355/113
particleDensity ==
  LET vol == MulDiv(4 * 355 * 10,
                    particleRadius * particleRadius * particleRadius * particleCount, 3 * 113)
      containerVolume == containerSize * containerSize * containerSize
  IN IF vol >= containerVolume THEN 10000 ELSE LongDivide(vol, containerVolume, 4)

\* the effective density of a particle with nearbyCount particles around it
\* (lines 754-764)
effectiveDensity(nearbyCount) ==
  IF nearbyCount >= localDensityThreshold
  THEN Min(10000, (particleDensity * 15) \div 10)
  ELSE particleDensity

\* calculatePackingRatio with the two threshold tests in the other order
calculatePackingRatioWarningFirst(count, size, side) ==
  LET packingRatio == MulDiv(4 * 355 * 100, size * size * size * count, 3 * 113)
                        \div (side * side * side)
      particlesPerAxis == Cbrt(count * 1000)
      averageSpacing == IF particlesPerAxis = 0 \/ size = 0 THEN PosInf
                        ELSE (side * 1000) \div (particlesPerAxis * size * 2)
      warningLevel == IF packingRatio >= WarningThreshold THEN "warning"
                      ELSE IF packingRatio >= CriticalThreshold THEN "critical"
                      ELSE "none"
  IN [ packingRatio |-> packingRatio, warningLevel |-> warningLevel,
       particlesPerAxis |-> particlesPerAxis, averageSpacing |-> averageSpacing ]

\* calculatePackingRatio(particleCount, particleSize, containerSize), with
\* Math.PI taken as 355/113: packingRatio in units of 0.01 rounded down (so
\* that it is at or above a threshold exactly when the quotient is),
\* particlesPerAxis in units of 0.1, averageSpacing in units of 0.01
calculatePackingRatio(count, size, side) ==
  LET packingRatio == MulDiv(4 * 355 * 100, size * size * size * count, 3 * 113)
                        \div (side * side * side)
      particlesPerAxis == Cbrt(count * 1000)
      averageSpacing == IF particlesPerAxis = 0 \/ size = 0 THEN PosInf
                        ELSE (side * 1000) \div (particlesPerAxis * size * 2)
      warningLevel == IF packingRatio >= CriticalThreshold THEN "critical"
                      ELSE IF packingRatio >= WarningThreshold THEN "warning"
                      ELSE "none"
  IN [ packingRatio |-> packingRatio, warningLevel |-> warningLevel,
       particlesPerAxis |-> particlesPerAxis, averageSpacing |-> averageSpacing ]

\* the densityStats memo (lines 1013-1016)
densityStats == calculatePackingRatio(particleCount, particleRadius, containerSize)

\* a property read of a JavaScript object: undefined when the object has no
\* such property
Undefined == "undefined"
Read(object, property) ==
  IF property \in DOMAIN object THEN object[property] ELSE Undefined

\* calculateMaxAllowableParticles(particleSize, containerSize), which App.tsx
\* imports (line 6): the closed-form inverse of the packing-ratio formula at
\* the critical threshold, 0.2 * containerSize^3 / ((4/3) * PI * particleSize^3)
\* rounded down
calculateMaxAllowableParticles(size, side) ==
  MulDiv(CriticalThreshold * 3 * 113, side * side * side, 4 * 355 * 100)
    \div (size * size * size)

\* maxAllowableParticles of App.tsx (lines 257-260)
maxAllowableParticles ==
  calculateMaxAllowableParticles(
    particleRadius,
    IF dynamicContainerSize THEN getContainerSize(particleCount) ELSE BASE_CONTAINER_SIZE)

\* the densityWarning state of App.tsx once the onDensityWarning effect
\* (lines 1019-1023) has run: handleDensityWarning stores the snapshot it is
\* handed, which is densityStats
densityWarning == densityStats

\* handleDensityWarning sets the particle count to
\* warning.maxAllowableParticles when warning.exceedsMaximum is truthy
EnforcesParticleLimit ==
  /\ Read(densityWarning, "exceedsMaximum") # Undefined
  /\ densityWarning.exceedsMaximum = TRUE

\* a faulty threshold adaptation, against which DensityThresholdsContract is
\* tested: it reduces the speed-change threshold by up to 100%, not 80%
calculateDensityAdjustedThresholdFullReduction(density) ==
  LET normalizedDensity == Max(0, Min(10000, ((density - 1000) * 10000) \div (5000 - 1000)))
      thresholdReduction == (normalizedDensity * normalizedDensity) \div 10000
      pow15 == (normalizedDensity * Sqrt(normalizedDensity * 10000)) \div 10000
  IN [ speedChangeThreshold |-> (2000 * (10000 - thresholdReduction)) \div 10000,
       minSpeedForCollision |-> 100 - ((100 - 10) * pow15) \div 10000 ]

\* calculateDensityAdjustedThreshold(density): density and speedChangeThreshold
\* in units of 0.0001, minSpeedForCollision in speed units
calculateDensityAdjustedThreshold(density) ==
  LET normalizedDensity == Max(0, Min(10000, ((density - 1000) * 10000) \div (5000 - 1000)))
      thresholdReduction == (8 * ((normalizedDensity * normalizedDensity) \div 10000)) \div 10
      pow15 == (normalizedDensity * Sqrt(normalizedDensity * 10000)) \div 10000
  IN [ speedChangeThreshold |-> (2000 * (10000 - thresholdReduction)) \div 10000,
       minSpeedForCollision |-> 100 - ((100 - 10) * pow15) \div 10000 ]

IdleStatus == [isColliding |-> FALSE, collisionTime |-> 0, lastUpdateTime |-> 0]

\* --------------------------------------------------- the passes of one tick
(* The state a tick works on is a record st:                               *)
(*   vel        the engine's velocities, as written by setLinvel           *)
(*   status     particleCollisionStatus     counter   collisionCounter     *)
(*   lastAct    lastActivityTime            positions particlePositions    *)
(*   prev       previousVelocities          potential potentialCollisions  *)
(*   density    localDensityMap                                            *)
(*   active, total, checked   activeCount, totalVelocityMagnitude,         *)
(*                            particlesChecked                             *)
(*   marks, since, stuckReset observations: the calls of                   *)
(*                            handleParticleCollision in their order,      *)
(*                            collidingSince, and the ids given to         *)
(*                            resetStuckParticle                           *)
(*   guarded                  observation: the velocity the invalid-       *)
(*                            velocity guard wrote, per body               *)
(*   currentTime              the clock as line 686 reads it               *)
(*   clock                    the clock as every later line of the tick    *)
(*                            reads it                                     *)
(*   fade                     observation: the fadeProgress computed, per  *)
(*                            body, in units of 0.001                      *)
(*   writes                   observation: the calls of setLinvel in their *)
(*                            order, each with the branch that made it     *)
(*   walls                    observation: the bodies for which            *)
(*                            isCollidingWithWall returned true            *)

\* a faulty handleParticleCollision, against which MarkContract is tested: it
\* counts every call as a new collision
HandleParticleCollisionCountsAll(st, particleId) ==
  [st EXCEPT
     !.counter = @ + 1,
     !.status = Put(@, particleId,
                    [isColliding |-> TRUE, collisionTime |-> st.clock, lastUpdateTime |-> st.clock]),
     !.marks = Append(@, [id |-> particleId, added |-> 1]),
     !.clock = st.last,
     !.since = IF particleId \in DOMAIN st.status /\ st.status[particleId].isColliding
                  /\ particleId \in DOMAIN @
               THEN @ ELSE Put(@, particleId, st.clock)]

\* handleParticleCollision(particleId)
HandleParticleCollision(st, particleId) ==
  LET known == particleId \in DOMAIN st.status
      existingStatus == IF known THEN st.status[particleId] ELSE IdleStatus
      isNewCollision ==
        \/ ~known
        \/ ~existingStatus.isColliding
        \/ (existingStatus.isColliding /\ st.clock - existingStatus.collisionTime > collisionFadeDuration)
      counted == IF isNewCollision THEN st.counter + 1 ELSE st.counter
  IN [st EXCEPT
        !.counter = counted,
        !.status = Put(@, particleId,
                       [isColliding |-> TRUE, collisionTime |-> st.clock, lastUpdateTime |-> st.clock]),
        !.marks = Append(@, [id |-> particleId, added |-> counted - st.counter]),
        !.clock = st.last,
        !.since = IF existingStatus.isColliding /\ particleId \in DOMAIN @
                  THEN @ ELSE Put(@, particleId, st.clock)]

\* a faulty wall test, against which WallClassification is tested: its sign
\* test asks for a position beyond the wall distance, not 0.9 x of it
isCollidingWithWallBeyondOnly(position, velocity, hasPrevious, previousVelocity, radius) ==
  LET wallThreshold == halfSize - radius - wallProximityThreshold
      toward(p, v) == Abs(p) > wallThreshold /\ SignEq(p, v)
      flipped(p, v, pv) == /\ Abs(p) > wallThreshold
                           /\ ~SignEq(v, pv)
                           /\ Gt(Abs(v), 20)
  IN \/ toward(position.x, velocity.x)
     \/ toward(position.y, velocity.y)
     \/ toward(position.z, velocity.z)
     \/ /\ hasPrevious
        /\ \/ flipped(position.x, velocity.x, previousVelocity.x)
           \/ flipped(position.y, velocity.y, previousVelocity.y)
           \/ flipped(position.z, velocity.z, previousVelocity.z)

\* isCollidingWithWall(position, velocity, previousVelocity, radius);
\* hasPrevious is false when previousVelocity is undefined
isCollidingWithWall(position, velocity, hasPrevious, previousVelocity, radius) ==
  LET wallThreshold == halfSize - radius - wallProximityThreshold
      toward(p, v) == Abs(p) > wallThreshold /\ SignEq(p, v)
      flipped(p, v, pv) == /\ 10 * Abs(p) > 9 * wallThreshold
                           /\ ~SignEq(v, pv)
                           /\ Gt(Abs(v), 20)
  IN \/ toward(position.x, velocity.x)
     \/ toward(position.y, velocity.y)
     \/ toward(position.z, velocity.z)
     \/ /\ hasPrevious
        /\ \/ flipped(position.x, velocity.x, previousVelocity.x)
           \/ flipped(position.y, velocity.y, previousVelocity.y)
           \/ flipped(position.z, velocity.z, previousVelocity.z)

\* a faulty neighbour search, against which CandidatesAndNeighboursMarked is
\* tested: it takes the threshold between surfaces, not between centres
findCollidingPairsBetweenSurfaces(positions, particleId, threshold, count) ==
  IF particleId \notin DOMAIN positions THEN {}
  ELSE LET position == positions[particleId]
           others == (DOMAIN positions) \ {particleId}
           gap == threshold - particleRadius * 2
       IN { o \in others : Dist2(position, positions[o]) < gap * gap }

\* findCollidingPairs(particleId, threshold, particleCount): the ids returned.
\* a faulty pair search, against which PairwiseMarksCandidateOrNear is tested:
\* it returns every other recorded particle, at any distance
findCollidingPairsAnyDistance(positions, particleId, threshold, count) ==
  IF particleId \notin DOMAIN positions THEN {}
  ELSE (DOMAIN positions) \ {particleId}

\* The sorted nearest-neighbour subset of the branch for more than 500
\* particles holds every other id while there are at most
\* max(100, 20% of particleCount) of them.
findCollidingPairs(positions, particleId, threshold, count) ==
  IF particleId \notin DOMAIN positions THEN {}
  ELSE LET position == positions[particleId]
           others == (DOMAIN positions) \ {particleId}
           checkCount == Max(100, (count * 2) \div 10)
       IN IF count > 500 /\ Cardinality(others) > checkCount
          THEN { o \in others :
                   /\ Dist2(position, positions[o]) < threshold * threshold
                   /\ Cardinality({ q \in others :
                         Dist2(position, positions[q]) < Dist2(position, positions[o]) })
                        < checkCount }
          ELSE { o \in others : Dist2(position, positions[o]) < threshold * threshold }

\* if (DEBUG.issues.size < 5) console.error(...), in the catch of a pass
CatchLogs(st) ==
  IF Cardinality(debugIssues) < IssueLogLimit THEN [st EXCEPT !.errors = @ + 1] ELSE st

\* a faulty first pass, against which InvalidVelocityGuarded is tested: its
\* guard replaces an invalid velocity at the uncapped target speed
FirstPassBodyUncapped(st, index, dir) ==
  IF index \in deadHandles THEN st
  ELSE
    LET vel == st.vel[index]
        originalSpeed == IF index \in DOMAIN particleSpeeds /\ particleSpeeds[index] # 0
                         THEN particleSpeeds[index] ELSE DefaultOriginalSpeed
    IN With([st EXCEPT !.positions = Put(@, index, translation[index]),
                       !.checked = @ + 1,
                       !.total = AddNum(@, SpeedOf(vel))],
         LAMBDA st1 :
           IF hasInvalidVelocity(vel)
           THEN With([st1 EXCEPT !.vel[index] = RandomVelocity(originalSpeed, dir),
                                 !.lastAct = st.clock,
                                 !.guarded = Put(@, index, RandomVelocity(originalSpeed, dir))],
                     LAMBDA st2 : HandleParticleCollision(st2, index))
           ELSE [st1 EXCEPT !.prev = Put(@, index, vel)])

\* the first-pass callback for one body (lines 700-793)
FirstPassBody(st, index, dir) ==
  IF index \in deadHandles THEN CatchLogs(st)   \* translation() throws: caught, logged
  ELSE
    LET position == translation[index]
        positions1 == Put(st.positions, index, position)
        nearbyCount == Cardinality({ o \in DOMAIN positions1 :
                         /\ o # index
                         /\ Dist2(position, positions1[o]) < localDensityRadius * localDensityRadius })
        vel == st.vel[index]
        currentSpeed == SpeedOf(vel)
        isActive == Gt(currentSpeed, ActiveSpeedFloor)       \* canSleep = false
        originalSpeed == IF index \in DOMAIN particleSpeeds /\ particleSpeeds[index] # 0
                         THEN particleSpeeds[index] ELSE DefaultOriginalSpeed
        hasPrevious == index \in DOMAIN st.prev
    IN With([st EXCEPT !.positions = positions1,
                       !.density = Put(@, index, nearbyCount),
                       !.checked = @ + 1,
                       !.total = AddNum(@, currentSpeed),
                       !.active = IF isActive THEN @ + 1 ELSE @],
         LAMBDA st1 :
           IF hasInvalidVelocity(vel)
           THEN With([st1 EXCEPT !.vel[index] =
                                    RandomVelocity(Min(originalSpeed, GuardSpeedCap), dir),
                                 !.lastAct = st.clock,
                                 !.guarded = Put(@, index,
                                    RandomVelocity(Min(originalSpeed, GuardSpeedCap), dir)),
                                 !.writes = Append(@, [id |-> index, branch |-> "guard"])],
                     LAMBDA st2 : HandleParticleCollision(st2, index))
           ELSE LET adjusted == calculateDensityAdjustedThreshold(effectiveDensity(nearbyCount))
                    \* speedChange > threshold, multiplied out
                    speedChanged == Abs(currentSpeed - originalSpeed) * 10000
                                      > adjusted.speedChangeThreshold * originalSpeed
                    isCandidate == speedChanged /\ currentSpeed > adjusted.minSpeedForCollision
                    hitsWall == isCollidingWithWall(position, vel, hasPrevious,
                                                    IF hasPrevious THEN st.prev[index] ELSE vel,
                                                    particleRadius)
                IN With(IF isCandidate THEN [st1 EXCEPT !.potential = @ \cup {index}] ELSE st1,
                     LAMBDA st2 :
                       With(IF hitsWall
                            THEN HandleParticleCollision([st2 EXCEPT !.walls = @ \cup {index}],
                                                         index)
                            ELSE st2,
                            LAMBDA st3 : [st3 EXCEPT !.prev = Put(@, index, vel)])))

\* a faulty first pass, against which OthersProcessed is tested: a throwing
\* body ends the loop
RECURSIVE FirstPassAbortsOnThrow(_, _, _)
FirstPassAbortsOnThrow(st, index, dirs) ==
  IF index >= particleCount \/ index \in deadHandles THEN st
  ELSE With(FirstPassBody(st, index, dirs[index]),
            LAMBDA next : FirstPassAbortsOnThrow(next, index + 1, dirs))

\* the callback for the bodies lo .. hi - 1, one after the other
RECURSIVE FirstPassRange(_, _, _, _)
FirstPassRange(st, lo, hi, dirs) ==
  IF lo >= hi THEN st
  ELSE IF hi = lo + 1 THEN FirstPassBody(st, lo, dirs[lo])
  ELSE With(FirstPassRange(st, lo, (lo + hi) \div 2, dirs),
            LAMBDA next : FirstPassRange(next, (lo + hi) \div 2, hi, dirs))

\* the first pass (lines 700-793) from body `index` on
FirstPass(st, index, dirs) == FirstPassRange(st, index, particleCount, dirs)

RECURSIVE MarkAll(_, _)
MarkAll(st, ids) ==
  IF ids = {} THEN st
  ELSE LET id == CHOOSE i \in ids : \A j \in ids : i <= j
       IN With(HandleParticleCollision(st, id), LAMBDA next : MarkAll(next, ids \ {id}))

\* the second pass (lines 796-812): each candidate, then its partners
RECURSIVE SecondPass(_, _)
SecondPass(st, candidates) ==
  IF candidates = {} THEN st
  ELSE LET particleId == CHOOSE i \in candidates : \A j \in candidates : i <= j
           collisionPartners == findCollidingPairs(st.positions, particleId,
                                   proximityThreshold + particleRadius * 2, particleCount)
       IN With(HandleParticleCollision(st, particleId),
            LAMBDA marked :
              With(MarkAll(marked, collisionPartners),
                   LAMBDA next : SecondPass(next, candidates \ {particleId})))

\* Math.min(timeSinceCollision / COLOR_FADE_DURATION, 1.0) in units of 0.001,
\* rounded away from zero when negative
FadeProgress(timeSinceCollision, duration) ==
  IF duration = 0
  THEN IF timeSinceCollision = 0 THEN NaN
       ELSE IF timeSinceCollision > 0 THEN 1000 ELSE NegInf
  ELSE IF timeSinceCollision >= 0
  THEN Min((timeSinceCollision * 1000) \div duration, 1000)
  ELSE -(((-timeSinceCollision) * 1000 + duration - 1) \div duration)

\* a faulty fade update, against which StatusConsistent is tested: it clears
\* isColliding and keeps collisionTime
FadeUpdateKeepsTime(st, index) ==
  LET material == index \in particleMaterials
      collisionTime == IF index \in DOMAIN st.status
                       THEN st.status[index].collisionTime ELSE 0
  IN IF material /\ collisionTime > 0 /\ st.currentTime - collisionTime >= collisionFadeDuration
     THEN [st EXCEPT !.status = Put(@, index, [IdleStatus EXCEPT !.collisionTime = collisionTime])]
     ELSE st

\* a faulty fade update, against which FadeExpiry is tested: the status is
\* cleared only after twice the fade duration
FadeUpdateLate(st, index) ==
  LET material == index \in particleMaterials
      collisionTime == IF index \in DOMAIN st.status
                       THEN st.status[index].collisionTime ELSE 0
      timeSinceCollision == st.currentTime - collisionTime
      fadeProgress == FadeProgress(timeSinceCollision, collisionFadeDuration)
  IN IF material /\ collisionTime > 0
     THEN IF Lt(fadeProgress, 2000) /\ timeSinceCollision < 2 * collisionFadeDuration
          THEN [st EXCEPT !.fade = Put(@, index, Min(fadeProgress, 999))]
          ELSE [st EXCEPT !.fade = Put(@, index, fadeProgress),
                          !.status = Put(@, index, IdleStatus),
                          !.since = Put(@, index, 0)]
     ELSE st

\* the fade update of the third pass (lines 823-851) for one body
FadeUpdate(st, index) ==
  LET material == index \in particleMaterials
      collisionTime == IF index \in DOMAIN st.status
                       THEN st.status[index].collisionTime ELSE 0
      timeSinceCollision == st.currentTime - collisionTime
      fadeProgress == FadeProgress(timeSinceCollision, collisionFadeDuration)
  IN IF material /\ collisionTime > 0
     THEN IF Lt(fadeProgress, 1000)
          THEN [st EXCEPT !.fade = Put(@, index, fadeProgress)]
          ELSE [st EXCEPT !.fade = Put(@, index, fadeProgress),
                          !.status = Put(@, index, IdleStatus),
                          !.since = Put(@, index, 0)]
     ELSE st

\* a faulty zero-friction correction, against which ReseedToCappedTarget is
\* tested: it has no reseed, so a slow particle is boosted
ZeroFrictionCorrectionNoReseed(st, index, vel, currentSpeed, originalSpeed, dir) ==
  IF Gt(currentSpeed, HardSpeedCap)
  THEN [st EXCEPT !.vel[index] = ScaleVec(vel, HardSpeedCap, currentSpeed),
                  !.lastAct = st.clock]
  ELSE IF /\ Abs(currentSpeed - originalSpeed) * 100 > 15 * originalSpeed
          /\ currentSpeed * 100 < originalSpeed * 85
  THEN [st EXCEPT !.vel[index] = ScaleVec(vel, Min(originalSpeed, BoostSpeedCap), currentSpeed),
                  !.lastAct = st.clock]
  ELSE st

\* a faulty zero-friction correction, against which FastParticleKept is tested:
\* it brings every particle that deviates by more than 15% to its target speed
ZeroFrictionCorrectionBothWays(st, index, vel, currentSpeed, originalSpeed, dir) ==
  IF Lt(currentSpeed, ReseedSpeedFloor)
  THEN [st EXCEPT !.vel[index] = RandomVelocity(Min(originalSpeed, ReseedSpeedCap), dir),
                  !.lastAct = st.clock]
  ELSE IF Gt(currentSpeed, HardSpeedCap)
  THEN [st EXCEPT !.vel[index] = ScaleVec(vel, HardSpeedCap, currentSpeed),
                  !.lastAct = st.clock]
  ELSE IF Abs(currentSpeed - originalSpeed) * 100 > 15 * originalSpeed
  THEN [st EXCEPT !.vel[index] = ScaleVec(vel, Min(originalSpeed, BoostSpeedCap), currentSpeed),
                  !.lastAct = st.clock]
  ELSE st

\* a faulty zero-friction correction, against which ZeroFrictionCapAndBoost is
\* tested: its cap does not return and its boost asks only for a deviation
\* above 15%, so the boost follows the cap
ZeroFrictionCorrectionFallsThrough(st, index, vel, currentSpeed, originalSpeed, dir) ==
  IF Lt(currentSpeed, ReseedSpeedFloor)
  THEN [st EXCEPT !.vel[index] = RandomVelocity(Min(originalSpeed, ReseedSpeedCap), dir),
                  !.lastAct = st.clock,
                  !.writes = Append(@, [id |-> index, branch |-> "reseed"])]
  ELSE With(IF Gt(currentSpeed, HardSpeedCap)
            THEN [st EXCEPT !.vel[index] = ScaleVec(vel, HardSpeedCap, currentSpeed),
                            !.lastAct = st.clock,
                            !.writes = Append(@, [id |-> index, branch |-> "cap"])]
            ELSE st,
         LAMBDA st1 :
           IF Abs(currentSpeed - originalSpeed) * 100 > 15 * originalSpeed
           THEN [st1 EXCEPT !.vel[index] = ScaleVec(vel, Min(originalSpeed, BoostSpeedCap),
                                                    currentSpeed),
                            !.lastAct = st.clock,
                            !.writes = Append(@, [id |-> index, branch |-> "boost"])]
           ELSE st1)

\* the zero-friction correction (lines 854-897) for one body
ZeroFrictionCorrection(st, index, vel, currentSpeed, originalSpeed, dir) ==
  IF Lt(currentSpeed, ReseedSpeedFloor)
  THEN [st EXCEPT !.vel[index] = RandomVelocity(Min(originalSpeed, ReseedSpeedCap), dir),
                  !.lastAct = st.clock,
                  !.writes = Append(@, [id |-> index, branch |-> "reseed"])]
  ELSE IF Gt(currentSpeed, HardSpeedCap)
  THEN [st EXCEPT !.vel[index] = ScaleVec(vel, HardSpeedCap, currentSpeed),
                  !.lastAct = st.clock,
                  !.writes = Append(@, [id |-> index, branch |-> "cap"])]
  ELSE IF /\ Abs(currentSpeed - originalSpeed) * 100 > 15 * originalSpeed
          /\ currentSpeed * 100 < originalSpeed * 85
  THEN [st EXCEPT !.vel[index] = ScaleVec(vel, Min(originalSpeed, BoostSpeedCap), currentSpeed),
                  !.lastAct = st.clock,
                  !.writes = Append(@, [id |-> index, branch |-> "boost"])]
  ELSE st

\* the low-friction correction (lines 898-919) for one body
LowFrictionCorrection(st, index, vel, currentSpeed, originalSpeed) ==
  LET correctionFactor == 1000 - Min(frictionCoefficient * 10, 900)
      boostSpeed == (originalSpeed * correctionFactor) \div 2000
  IN IF /\ Lt(currentSpeed * 2, originalSpeed)
        /\ Lt(currentSpeed, LowFrictionSpeedFloor)
        /\ boostSpeed > currentSpeed
     THEN [st EXCEPT !.vel[index] = ScaleVec(vel, boostSpeed, currentSpeed),
                     !.lastAct = st.clock,
                     !.writes = Append(@, [id |-> index, branch |-> "lowFriction"])]
     ELSE st

\* a faulty third pass, against which NormalFrictionKeepsVelocity is tested: it
\* applies the low-friction correction whatever the friction coefficient
ThirdPassBodyAlwaysCorrects(st, index, dir) ==
  IF index \in deadHandles THEN st
  ELSE
    LET vel == st.vel[index]
        currentSpeed == SpeedOf(vel)
        originalSpeed == IF index \in DOMAIN particleSpeeds /\ particleSpeeds[index] # 0
                         THEN particleSpeeds[index] ELSE DefaultOriginalSpeed
    IN With(FadeUpdate(st, index),
         LAMBDA st1 :
           IF ~particleParticleFriction /\ ~particleWallFriction
           THEN ZeroFrictionCorrection(st1, index, vel, currentSpeed, originalSpeed, dir)
           ELSE LowFrictionCorrection(st1, index, vel, currentSpeed, originalSpeed))

\* the third-pass callback for one body (lines 815-924)
ThirdPassBody(st, index, dir) ==
  IF index \in deadHandles THEN CatchLogs(st)   \* linvel() throws: caught, logged
  ELSE
    LET vel == st.vel[index]
        currentSpeed == SpeedOf(vel)
        originalSpeed == IF index \in DOMAIN particleSpeeds /\ particleSpeeds[index] # 0
                         THEN particleSpeeds[index] ELSE DefaultOriginalSpeed
    IN With(FadeUpdate(st, index),
         LAMBDA st1 :
           IF ~particleParticleFriction /\ ~particleWallFriction
           THEN ZeroFrictionCorrection(st1, index, vel, currentSpeed, originalSpeed, dir)
           ELSE IF frictionCoefficient < LowFrictionLimit
           THEN LowFrictionCorrection(st1, index, vel, currentSpeed, originalSpeed)
           ELSE st1)

\* the callback for the bodies lo .. hi - 1, one after the other
RECURSIVE ThirdPassRange(_, _, _, _)
ThirdPassRange(st, lo, hi, dirs) ==
  IF lo >= hi THEN st
  ELSE IF hi = lo + 1 THEN ThirdPassBody(st, lo, dirs[lo])
  ELSE With(ThirdPassRange(st, lo, (lo + hi) \div 2, dirs),
            LAMBDA next : ThirdPassRange(next, (lo + hi) \div 2, hi, dirs))

\* the third pass (lines 815-924) from body `index` on
ThirdPass(st, index, dirs) == ThirdPassRange(st, index, particleCount, dirs)

\* resetStuckParticle(particleId)
ResetStuckParticle(st, particleId) ==
  [st EXCEPT !.status = Put(@, particleId, IdleStatus),
             !.since = Put(@, particleId, 0),
             !.stuckReset = @ \cup {particleId}]

\* a faulty stuck-particle check, against which StuckRecovered is tested: it
\* waits for 4 x collisionFadeDuration
StuckAfterFourFades(status) ==
  { particleId \in DOMAIN status :
      /\ status[particleId].isColliding
      /\ now' - status[particleId].collisionTime > collisionFadeDuration * 4 }

\* the stuck-particle check (lines 960-975): the ids it resets; now' is the
\* clock as the tail of the tick reads it
StuckParticles(status) ==
  { particleId \in DOMAIN status :
      /\ status[particleId].isColliding
      /\ now' - status[particleId].collisionTime > collisionFadeDuration * 2 }

RECURSIVE ResetAll(_, _)
ResetAll(st, ids) ==
  IF ids = {} THEN st
  ELSE LET id == CHOOSE i \in ids : \A j \in ids : i <= j
       IN With(ResetStuckParticle(st, id), LAMBDA next : ResetAll(next, ids \ {id}))

\* whether the stuck-particle check runs in the tick that makes the status
\* counter reach `counter`
StuckCheckDue(counter) ==
  /\ counter % StatusCheckPeriod = 0
  /\ now' - stuckLastResetTime > StuckCheckPeriod

\* averageSpeed > 0.01, for averageSpeed = total / checked (0 when none checked)
AverageSpeedActive(total, checked) ==
  /\ checked > 0
  /\ ~IsNaN(total)
  /\ (total = PosInf \/ total > ActivitySpeedFloor * checked)

\* averageSpeed (lines 926-927): total / checked, or 0 when nothing was checked
averageSpeed(total, checked) ==
  IF checked = 0 THEN 0
  ELSE IF IsFinite(total) THEN total \div checked
  ELSE total

\* the value handed to onSpeedUpdate (line 931): Math.max(0, averageSpeed),
\* which is NaN when averageSpeed is NaN
SpeedUpdate(total, checked) ==
  IF IsNaN(averageSpeed(total, checked)) THEN NaN
  ELSE Max(0, averageSpeed(total, checked))

\* a faulty flush, against which CountConserved is tested: it resets the
\* counter before reporting it
CollisionFlushResetsFirst(counter, due) ==
  [reported |-> 0, counter |-> IF due THEN 0 ELSE counter]

\* the flush of the collision count (lines 936-941): when due, the counter is
\* handed to onCollisionCountUpdate and then reset
CollisionFlush(counter, due) ==
  [reported |-> IF due THEN counter ELSE 0, counter |-> IF due THEN 0 ELSE counter]

\* the adaptive frame-skip count (lines 673-679)
adaptiveFrameSkipCount ==
  Min(3, Max(0, (particleCount \div 200) - (particleDensity \div 5000)))

\* a faulty frame counter, against which FrameSkipContract is tested: it wraps
\* one frame late
NextFrameCounterWrapsLate == (frameCounter + 1) % (adaptiveFrameSkipCount + 2)

\* frameCounter.current after line 682
NextFrameCounter == (frameCounter + 1) % (adaptiveFrameSkipCount + 1)

\* the count of console diagnostics after `calls` more of them; the count
\* stops at MaxDiagnostics
Logged(calls) == Min(MaxDiagnostics, consoleDiagnostics + calls)

\* ----------------------------------------------------------------- actions
NoTick ==
  [flushed |-> FALSE, stuckChecked |-> FALSE, stuckReset |-> {}, marks |-> <<>>,
   guarded |-> EmptyMap, fade |-> EmptyMap, writes |-> <<>>,
   walls |-> {}, potential |-> {}, density |-> EmptyMap,
   reported |-> 0, speed |-> 0, firstMarks |-> 0]
NoWatchdog == [outcome |-> "none", stalledAtRun |-> FALSE, lastReseedAt |-> 0, reseeds |-> 0]

\* a faulty flush condition, against which FlushContract is tested: the count
\* is reported in every tick
FlushInEveryTick == TRUE

\* whether the collision count is flushed in this tick (lines 936-941)
FlushDue == now' - lastReportedCollisionTime >= CollisionReportPeriod

\* the velocity check of the status tail (lines 976-993): linvel() of a
\* dropped body throws, caught and logged
RECURSIVE CatchAll(_, _)
CatchAll(st, ids) ==
  IF ids = {} THEN st
  ELSE LET id == CHOOSE i \in ids : \A j \in ids : i <= j
       IN With(CatchLogs(st), LAMBDA next : CatchAll(next, ids \ {id}))

StatusCheckLogs(st) == CatchAll(st, Particles \cap deadHandles)

\* what one processed tick computes (lines 686-1002): the three passes, then
\* the stuck-particle check of the status tail; the clock is now when line
\* 686 reads it, `first` when a later line reads it up to and including the
\* first call of handleParticleCollision (line 405), and now' after that
ProcessedTickFrom(dirs, first) ==
  LET st0 == [vel |-> linvel, status |-> particleCollisionStatus,
              counter |-> collisionCounter, lastAct |-> lastActivityTime,
              positions |-> particlePositions, prev |-> previousVelocities,
              potential |-> {}, density |-> EmptyMap,
              active |-> 0, total |-> 0, checked |-> 0,
              marks |-> <<>>, since |-> collidingSince,
              stuckReset |-> {}, guarded |-> EmptyMap,
              currentTime |-> now, clock |-> first, last |-> now',
              fade |-> EmptyMap, errors |-> 0,
              writes |-> <<>>, walls |-> {}]
      counter == statusCheckCounter + 1
      stuckDue == StuckCheckDue(counter)
  IN With(FirstPass(st0, 0, dirs),
       LAMBDA st1 :
         With(SecondPass(st1, st1.potential),
           LAMBDA st2 :
             With(ThirdPass(st2, 0, dirs),
               LAMBDA st3 :
                 With(IF stuckDue THEN ResetAll(st3, StuckParticles(st3.status)) ELSE st3,
                   LAMBDA st4 :
                     [ vel |-> st4.vel, status |-> st4.status, positions |-> st4.positions,
                       prev |-> st4.prev, counter |-> st4.counter, lastAct |-> st4.lastAct,
                       total |-> st4.total, checked |-> st4.checked, active |-> st4.active,
                       since |-> st4.since, marks |-> st4.marks,
                       firstMarks |-> Len(st1.marks),
                       stuckReset |-> st4.stuckReset, guarded |-> st4.guarded,
                       fade |-> st4.fade, writes |-> st4.writes, walls |-> st4.walls,
                       potential |-> st4.potential, density |-> st4.density,
                       errors |-> IF counter % StatusCheckPeriod = 0
                                  THEN StatusCheckLogs(st4).errors ELSE st4.errors,
                       flush |-> FlushDue,
                       statusDue |-> counter % StatusCheckPeriod = 0,
                       stuckDue |-> stuckDue,
                       anyBad |-> \E i \in Particles \ deadHandles :
                                     \/ ~IsFinite(st4.vel[i].x)
                                     \/ ~IsFinite(st4.vel[i].y)
                                     \/ ~IsFinite(st4.vel[i].z) ]))))

\* a processed tick whose later reads of the clock all return now'
ProcessedTick(dirs) == ProcessedTickFrom(dirs, now')

\* the last n elements of a sequence
LastOf(seq, n) ==
  IF Len(seq) <= n THEN seq ELSE SubSeq(seq, Len(seq) - n + 1, Len(seq))

\* the useFrame callback (lines 669-1003), with the random directions it draws
\* and the milliseconds that pass between its first read of the clock (line
\* 686) and its later ones
FrameFrom(dirs, elapsed, first) ==
  /\ now' = now + elapsed
  /\ frameCounter' = NextFrameCounter
  /\ recentFrames' = LastOf(Append(recentFrames, frameCounter' = 0), adaptiveFrameSkipCount + 1)
  /\ UNCHANGED <<host, props, translation, deadHandles, particleSpeeds, particleMaterials,
                 resetCounter, watchdog, debugIssues, velocityCheckTimer>>
  /\ IF frameCounter' # 0
     THEN UNCHANGED <<linvel, particleCollisionStatus, particlePositions, previousVelocities,
                      collisionCounter, lastReportedCollisionTime, lastActivityTime,
                      statusCheckCounter, stuckLastResetTime, simulationActive,
                      hasDetectedIssue, lastTick, lastFlushAt, collidingSince,
                      consoleDiagnostics>>
     ELSE
       \E tick \in { ProcessedTickFrom(dirs, first) } :
          /\ linvel' = tick.vel
          /\ particleCollisionStatus' = tick.status
          /\ particlePositions' = tick.positions
          /\ previousVelocities' = tick.prev
          /\ collisionCounter' = CollisionFlush(tick.counter, tick.flush).counter
          /\ lastReportedCollisionTime' = IF tick.flush THEN now' ELSE lastReportedCollisionTime
          /\ lastFlushAt' = IF tick.flush THEN now' ELSE lastFlushAt
          /\ lastActivityTime' = IF AverageSpeedActive(tick.total, tick.checked)
                                 THEN now' ELSE tick.lastAct
          /\ statusCheckCounter' = statusCheckCounter + 1
          /\ stuckLastResetTime' = IF tick.stuckDue THEN now' ELSE stuckLastResetTime
          /\ hasDetectedIssue' = (hasDetectedIssue \/ (tick.statusDue /\ tick.anyBad))
          /\ simulationActive' = IF tick.statusDue THEN tick.active > 0 ELSE simulationActive
          /\ collidingSince' = tick.since
          /\ consoleDiagnostics' = Logged(tick.errors)
          /\ lastTick' = [flushed |-> tick.flush, stuckChecked |-> tick.stuckDue,
                          stuckReset |-> tick.stuckReset, marks |-> tick.marks,
                          guarded |-> tick.guarded, fade |-> tick.fade,
                          writes |-> tick.writes, walls |-> tick.walls,
                          potential |-> tick.potential, density |-> tick.density,
                          reported |-> CollisionFlush(tick.counter, tick.flush).reported,
                          speed |-> SpeedUpdate(tick.total, tick.checked),
                          firstMarks |-> tick.firstMarks]

\* the useFrame callback all of whose later reads of the clock return the
\* same millisecond
Frame(dirs, elapsed) == FrameFrom(dirs, elapsed, now + elapsed)

\* a faulty movement test, against which ReseedOnlyWhenStalled is tested: it
\* uses the floor of the active count (0.01)
NoMovementAboveActiveFloor ==
  \A i \in Particles \ deadHandles : ~Gt(SpeedOf(linvel[i]), ActiveSpeedFloor)

\* every readable body is slower than the movement floor of the stall check
NoMovement ==
  \A i \in Particles \ deadHandles : ~Gt(SpeedOf(linvel[i]), StallMovementFloor)

\* a faulty reseed velocity, against which ReseedContract is tested: the
\* target speed without the cap
StallReseedVelocityUncapped(index, dir) ==
  RandomVelocity(IF index \in DOMAIN particleSpeeds /\ particleSpeeds[index] # 0
                 THEN particleSpeeds[index] ELSE initialVelocity, dir)

\* the velocity the stall check writes to body index
StallReseedVelocity(index, dir) ==
  LET originalSpeed == IF index \in DOMAIN particleSpeeds /\ particleSpeeds[index] # 0
                       THEN particleSpeeds[index] ELSE initialVelocity
  IN RandomVelocity(Min(originalSpeed, StallSpeedCap), dir)

\* the stallCheckInterval callback (lines 607-656)
StallCheck(dirs) ==
  LET due == now - lastActivityTime > StallTimeout
      atRest == \A i \in Particles \ deadHandles : linvel[i] = Vec(0, 0, 0)
      reseed == due /\ simulationActive /\ NoMovement
  IN /\ linvel' = IF reseed
                  THEN [i \in DOMAIN linvel |->
                          IF i \in Particles \ deadHandles
                          THEN StallReseedVelocity(i, dirs[i]) ELSE linvel[i]]
                  ELSE linvel
     /\ lastActivityTime' = IF reseed THEN now ELSE lastActivityTime
     /\ watchdog' = IF ~due THEN watchdog
                     ELSE [outcome |-> IF reseed THEN "reseed" ELSE "declined",
                           stalledAtRun |-> (atRest /\ deadHandles = {}),
                           lastReseedAt |-> IF reseed THEN now ELSE watchdog.lastReseedAt,
                           reseeds |-> IF reseed THEN watchdog.reseeds + 1
                                       ELSE watchdog.reseeds]
     \* the catch of the movement check (624) and of the velocity reset (648)
     /\ consoleDiagnostics' =
          IF due /\ simulationActive /\ Cardinality(debugIssues) < IssueLogLimit
          THEN Logged(Cardinality(Particles \cap deadHandles) * (IF reseed THEN 2 ELSE 1))
          ELSE consoleDiagnostics
     /\ UNCHANGED <<host, now, props, translation, deadHandles, particleSpeeds,
                    particleCollisionStatus, particleMaterials, particlePositions,
                    previousVelocities, collisionCounter, lastReportedCollisionTime,
                    statusCheckCounter, stuckLastResetTime, frameCounter, reactState,
                    lastTick, lastFlushAt, collidingSince, recentFrames, debugIssues,
                    velocityCheckTimer>>

\* generateParticles: speed = (0.5 + Math.random() * 0.5) * maxVelocity,
\* for Math.random() = 0 and for its largest value
SpawnSpeeds(maxVelocity) == { maxVelocity \div 2, maxVelocity }

\* a re-render of the component: the material ref callbacks (lines 1136-1141)
Render ==
  /\ particleMaterials # Particles
  /\ particleMaterials' = Particles
  /\ UNCHANGED <<host, now, props, engine, particleSpeeds, particleCollisionStatus,
                 particlePositions, previousVelocities, collisionCounter,
                 lastReportedCollisionTime, lastActivityTime, statusCheckCounter,
                 stuckLastResetTime, frameCounter, reactState, observed, diagnostics>>

\* a faulty reinitialisation, against which ReinitClean is tested: it keeps
\* the collision statuses
ReinitializeKeepsStatus(speeds, dirs, positions) ==
  /\ resetCounter < 1 + MaxResets
  /\ resetCounter' = resetCounter + 1
  /\ linvel' = [i \in Particles |-> RandomVelocity(speeds[i], dirs[i])]
  /\ translation' = [i \in Particles |-> positions[i]]
  /\ deadHandles' = {}
  /\ particleSpeeds' = [i \in Particles |-> SpeedOf(linvel'[i])]
  /\ particleMaterials' = {}
  /\ previousVelocities' = EmptyMap
  /\ simulationActive' = TRUE
  /\ hasDetectedIssue' = FALSE
  /\ lastActivityTime' = now
  /\ debugIssues' = {}
  /\ velocityCheckTimer' = now + VelocityCheckDelay
  /\ UNCHANGED <<host, now, props, particleCollisionStatus, particlePositions, collisionCounter,
                 lastReportedCollisionTime, statusCheckCounter, stuckLastResetTime,
                 frameCounter, observed, consoleDiagnostics>>

\* a change of a dependency of the reset effect that keeps particle count, size
\* and initial velocity (gravity, restitution): the reset effect (343-356), the
\* regenerated particles (296-307), the remounted bodies and the
\* speed-initialisation effect (371-387)
Reinitialize(speeds, dirs, positions) ==
  /\ resetCounter < 1 + MaxResets
  /\ resetCounter' = resetCounter + 1
  /\ linvel' = [i \in Particles |-> RandomVelocity(speeds[i], dirs[i])]
  /\ translation' = [i \in Particles |-> positions[i]]
  /\ deadHandles' = {}
  /\ particleSpeeds' = [i \in Particles |-> SpeedOf(linvel'[i])]
  /\ particleCollisionStatus' = [i \in Particles |-> IdleStatus]
  /\ particleMaterials' = {}
  /\ previousVelocities' = EmptyMap
  /\ simulationActive' = TRUE
  /\ hasDetectedIssue' = FALSE
  /\ lastActivityTime' = now
  /\ collidingSince' = [i \in Particles |-> 0]
  /\ debugIssues' = {}
  /\ velocityCheckTimer' = now + VelocityCheckDelay
  /\ UNCHANGED <<host, now, props, particlePositions, collisionCounter,
                 lastReportedCollisionTime, statusCheckCounter, stuckLastResetTime,
                 frameCounter, lastTick, lastFlushAt, watchdog, recentFrames,
                 consoleDiagnostics>>

\* the configuration the host passes as props
Configuration ==
  [ particleCount |-> particleCount, particleSize |-> particleRadius,
    initialVelocity |-> initialVelocity, frictionCoefficient |-> frictionCoefficient,
    restitution |-> restitution, collisionFadeDuration |-> collisionFadeDuration,
    dynamicContainerSize |-> dynamicContainerSize ]

\* a faulty dependency list, against which ConfigChangeEffect is tested: the
\* reset effect also runs when the friction coefficient changes
ResetDependenciesWithFriction ==
  <<particleParticleFriction, particleWallFriction, particleCount, particleRadius,
    initialVelocity, restitution, frictionCoefficient>>

\* the dependencies of the reset effect (line 356) among the props of the model
ResetDependencies ==
  <<particleParticleFriction, particleWallFriction, particleCount, particleRadius,
    initialVelocity, restitution>>

\* the dependencies of the particles memo (line 306) other than resetCounter
ParticlesDependencies == <<particleCount, particleRadius, initialVelocity, containerSize>>

\* a render with the props of `config`, and the effects it triggers: the reset
\* effect (343-356) when one of its dependencies changed, the regenerated
\* particles (296-307) with the bodies taking their positions and velocities,
\* and the speed-initialisation effect (371-387) when the particles changed
SetProps(config, speeds, dirs, positions) ==
  /\ config # Configuration
  /\ particleCount' = config.particleCount
  /\ particleRadius' = config.particleSize
  /\ initialVelocity' = config.initialVelocity
  /\ frictionCoefficient' = config.frictionCoefficient
  /\ restitution' = config.restitution
  /\ collisionFadeDuration' = config.collisionFadeDuration
  /\ dynamicContainerSize' = config.dynamicContainerSize
  /\ recentFrames' = <<>>
  /\ UNCHANGED <<host, now, particleParticleFriction, particleWallFriction, particlePositions,
                 collisionCounter, lastReportedCollisionTime, statusCheckCounter,
                 stuckLastResetTime, frameCounter, lastTick, lastFlushAt, watchdog,
                 consoleDiagnostics>>
  /\ IF ResetDependencies' # ResetDependencies
     THEN /\ resetCounter < 1 + MaxResets
          /\ resetCounter' = resetCounter + 1
          /\ previousVelocities' = EmptyMap
          /\ deadHandles' = {}
          /\ simulationActive' = TRUE
          /\ hasDetectedIssue' = FALSE
          /\ lastActivityTime' = now
          /\ debugIssues' = {}
          /\ velocityCheckTimer' = now + VelocityCheckDelay
     ELSE UNCHANGED <<resetCounter, previousVelocities, deadHandles, simulationActive,
                      hasDetectedIssue, lastActivityTime, debugIssues, velocityCheckTimer>>
  /\ IF ResetDependencies' # ResetDependencies \/ ParticlesDependencies' # ParticlesDependencies
     THEN /\ linvel' = [i \in Bodies(config.particleCount) |-> RandomVelocity(speeds[i], dirs[i])]
          /\ translation' = [i \in Bodies(config.particleCount) |-> positions[i]]
          /\ particleSpeeds' = [i \in Bodies(config.particleCount) |-> SpeedOf(linvel'[i])]
          /\ particleCollisionStatus' = [i \in Bodies(config.particleCount) |-> IdleStatus]
          /\ particleMaterials' = {}
          /\ collidingSince' = [i \in Bodies(config.particleCount) |-> 0]
     ELSE UNCHANGED <<linvel, translation, particleSpeeds, particleCollisionStatus,
                      particleMaterials, collidingSince>>

\* the engine's world step changes the velocity of a body
EngineStep(i, vel) ==
  /\ i \in Particles \ deadHandles
  /\ linvel[i] # vel
  /\ linvel' = [linvel EXCEPT ![i] = vel]
  /\ UNCHANGED <<host, now, props, translation, deadHandles, refs, reactState, observed, diagnostics>>

\* a step of the engine moves body i to a position, with a velocity
EngineMove(i, position, vel) ==
  /\ i \in Particles \ deadHandles
  /\ translation[i] # position \/ linvel[i] # vel
  /\ translation' = [translation EXCEPT ![i] = position]
  /\ linvel' = [linvel EXCEPT ![i] = vel]
  /\ UNCHANGED <<host, now, props, deadHandles, refs, reactState, observed, diagnostics>>

\* the engine drops a body: every call on its handle throws from now on
HandleDies(i) ==
  /\ i \in Particles
  /\ deadHandles = {}
  /\ deadHandles' = {i}
  /\ UNCHANGED <<host, now, props, linvel, translation, refs, reactState, observed, diagnostics>>

\* JSON.stringify of a velocity: NaN and the infinities are all written as
\* null (held as NaN)
JsonNumber(a) == IF IsFinite(a) THEN a ELSE NaN
JsonVec(vel) == Vec(JsonNumber(vel.x), JsonNumber(vel.y), JsonNumber(vel.z))

\* the keys DEBUG.logIssue is called with by the initial velocity check
InitialIssues ==
  { [issueType |-> "INITIAL_VELOCITY_CHECK_ERROR", particleIndex |-> i,
      details |-> Vec(0, 0, 0)] :          \* String(err), the same for every throw
      i \in Particles \cap deadHandles }
    \cup { [issueType |-> "INITIAL_INVALID_VELOCITY", particleIndex |-> i,
            details |-> JsonVec(linvel[i])] :
            i \in { j \in Particles \ deadHandles : hasInvalidVelocity(linvel[j]) } }

\* the timer of the initial velocity check (lines 573-603) fires: every issue
\* not yet in DEBUG.issues is warned about once and added (DEBUG.logIssue)
InitialVelocityCheck ==
  /\ velocityCheckTimer # 0
  /\ now >= velocityCheckTimer
  /\ velocityCheckTimer' = 0
  /\ debugIssues' = debugIssues \cup InitialIssues
  /\ consoleDiagnostics' = Logged(Cardinality(InitialIssues \ debugIssues))
  /\ UNCHANGED <<host, now, props, engine, refs, reactState, observed>>

\* the wall clock advances
Tick(step, last) ==
  /\ now + step <= last
  /\ now' = now + step
  /\ UNCHANGED <<host, props, engine, refs, reactState, observed, diagnostics>>

\* the state after the component has mounted: refs as constructed, the reset
\* effect and the speed-initialisation effect run once
MountedWith(ppf, pwf, config, speeds, dirs, positions) ==
  LET count == config.particleCount IN
  /\ now = StartTime
  /\ particleParticleFriction = ppf
  /\ particleWallFriction = pwf
  /\ frictionCoefficient = config.frictionCoefficient
  /\ collisionFadeDuration = config.collisionFadeDuration
  /\ initialVelocity = config.initialVelocity
  /\ particleCount = count
  /\ particleRadius = config.particleSize
  /\ restitution = config.restitution
  /\ dynamicContainerSize = config.dynamicContainerSize
  /\ linvel = [i \in 0 .. (count - 1) |-> RandomVelocity(speeds[i], dirs[i])]
  /\ translation = [i \in 0 .. (count - 1) |-> positions[i]]
  /\ deadHandles = {}
  /\ particleSpeeds = [i \in 0 .. (count - 1) |-> SpeedOf(linvel[i])]
  /\ particleCollisionStatus = [i \in 0 .. (count - 1) |-> IdleStatus]
  /\ particleMaterials = {}
  /\ particlePositions = EmptyMap
  /\ previousVelocities = EmptyMap
  /\ collisionCounter = 0
  /\ lastReportedCollisionTime = 0
  /\ lastActivityTime = StartTime
  /\ statusCheckCounter = 0
  /\ stuckLastResetTime = 0
  /\ frameCounter = 0
  /\ simulationActive = TRUE
  /\ hasDetectedIssue = FALSE
  /\ resetCounter = 1
  /\ lastTick = NoTick
  /\ lastFlushAt = 0
  /\ collidingSince = [i \in 0 .. (count - 1) |-> 0]
  /\ watchdog = NoWatchdog
  /\ recentFrames = <<>>
  /\ debugIssues = {}
  /\ velocityCheckTimer = StartTime + VelocityCheckDelay
  /\ consoleDiagnostics = 0
  \* the host's speed-history effect has run once: it appended currentSpeed (0)
  \* to the placeholder history [0, 0] and started its interval
  /\ speedHistory = <<0, 0, 0>>
  /\ renderedSpeed = 0
  /\ speedTimerDue = StartTime + SpeedSamplePeriod
  /\ lastSample = [at |-> StartTime, count |-> 1]

\* the mount with the particle size, the restitution and the fixed container
\* of App.tsx
Mounted(ppf, pwf, fc, fade, iv, count, speeds, dirs, positions) ==
  MountedWith(ppf, pwf,
              [ particleCount |-> count, particleSize |-> particleSize,
                initialVelocity |-> iv, frictionCoefficient |-> fc,
                restitution |-> DefaultRestitution, collisionFadeDuration |-> fade,
                dynamicContainerSize |-> FALSE ],
              speeds, dirs, positions)

\* -------------------------------------------------------- specifications
Centre == Vec(0, 0, 0)
SpawnPositions == { Centre }

\* the direction of a body for which no Math.random() is drawn
NoDraw == CHOOSE d \in Directions : d.d = 1

\* the directions drawn for the bodies of `need`
Draws(need) ==
  { [i \in Particles |-> IF i \in need THEN drawn[i] ELSE NoDraw] :
      drawn \in [need -> Directions] }

\* the bodies for which a tick draws a direction: the invalid-velocity guard
\* (737-738) and the zero-friction reseed (859-860)
FrameDraws ==
  { i \in Particles \ deadHandles :
      \/ hasInvalidVelocity(linvel[i])
      \/ /\ ~particleParticleFriction /\ ~particleWallFriction
         /\ Lt(SpeedOf(linvel[i]), ReseedSpeedFloor) }

\* the bodies for which a run of the stall check draws a direction (631-632)
StallDraws ==
  IF now - lastActivityTime > StallTimeout /\ simulationActive /\ NoMovement
  THEN Particles \ deadHandles ELSE {}

\* the state after the mount with the friction regime of App.tsx (particle
\* friction on, coefficient 0.1), fade 0.5 s and initial velocity 1.0
Started(count, speeds) ==
  Mounted(TRUE, FALSE, 100, 500, 200, count,
          speeds, [i \in Bodies(count) |-> NoDraw], [i \in Bodies(count) |-> Centre])

\* a processed tick, while fewer than maxFrames of them have run, all of
\* whose reads of the clock fall into one millisecond
FrameStep(maxFrames) ==
  /\ statusCheckCounter < maxFrames
  /\ \E dirs \in Draws(FrameDraws) : Frame(dirs, 0)

\* a processed tick during which up to MaxCallbackLatency milliseconds pass
FrameStepAcross(maxFrames) ==
  /\ statusCheckCounter < maxFrames
  /\ \E dirs \in Draws(FrameDraws), elapsed \in 0 .. MaxCallbackLatency :
       Frame(dirs, elapsed)

\* a processed tick whose callback is held up (a garbage collection, a
\* throttled tab) for up to StalledCallback milliseconds after its first call
\* of handleParticleCollision
FrameStepStalled(maxFrames) ==
  /\ statusCheckCounter < maxFrames
  /\ \E dirs \in Draws(FrameDraws), elapsed \in { 0, StalledCallback } :
       FrameFrom(dirs, elapsed, now)

\* a run of the reset effect with freshly generated particles
ResetEffect ==
  \E speeds \in [Particles -> SpawnSpeeds(initialVelocity)],
     positions \in [Particles -> SpawnPositions] :
    Reinitialize(speeds, [i \in Particles |-> NoDraw], positions)

\* what the engine's step can leave as a body's velocity: its target speed or
\* a speed changed by an elastic collision
EngineVelocities == { Vec(100, 0, 0), Vec(200, 0, 0) }

\* Spec: a run long enough for the status check, without reset
Init ==
  \E speeds \in [Bodies(MaxParticles) -> SpawnSpeeds(200)] :
    Started(MaxParticles, speeds)

Next ==
  \/ FrameStep(MaxFrames)
  \/ Render
  \/ \E i \in Particles, vel \in EngineVelocities : EngineStep(i, vel)
  \/ Tick(ClockStep, StartTime + ClockStep * MaxClockSteps)

Spec == Init /\ [][Next]_vars

\* SpecShort: a short run with resets
NextShort ==
  \/ FrameStep(ShortRunFrames)
  \/ Render
  \/ ResetEffect
  \/ \E i \in Particles, vel \in EngineVelocities : EngineStep(i, vel)
  \/ Tick(ClockStep, StartTime + ClockStep * MaxClockSteps)

SpecShort == Init /\ [][NextShort]_vars

\* SpecConfig: a short run in which the host changes one setting away from
\* the defaults of App.tsx, or back to them
DefaultConfiguration ==
  [ particleCount |-> MaxParticles, particleSize |-> particleSize,
    initialVelocity |-> 200, frictionCoefficient |-> 100,
    restitution |-> DefaultRestitution, collisionFadeDuration |-> 500,
    dynamicContainerSize |-> FALSE ]

OtherConfiguration ==
  [ particleCount |-> MaxParticles - 1, particleSize |-> particleSize + 2,
    initialVelocity |-> 100, frictionCoefficient |-> 10,
    restitution |-> 500, collisionFadeDuration |-> 1000,
    dynamicContainerSize |-> TRUE ]

SettingChoices ==
  { DefaultConfiguration }
    \cup { [DefaultConfiguration EXCEPT ![k] = OtherConfiguration[k]] :
             k \in DOMAIN DefaultConfiguration }

SettingChange ==
  \E config \in SettingChoices :
    \E speeds \in [Bodies(config.particleCount) -> SpawnSpeeds(config.initialVelocity)] :
      /\ config = DefaultConfiguration \/ Configuration = DefaultConfiguration
      /\ SetProps(config, speeds, [i \in Bodies(config.particleCount) |-> NoDraw],
                  [i \in Bodies(config.particleCount) |-> Centre])

NextConfig ==
  \/ FrameStep(ShortRunFrames)
  \/ Render
  \/ SettingChange
  \/ \E i \in Particles, vel \in EngineVelocities : EngineStep(i, vel)
  \/ Tick(ClockStep, StartTime + ClockStep * MaxClockSteps)

SpecConfig == Init /\ [][NextConfig]_vars

\* SpecDensity: the component mounted at one of the particle counts, particle
\* sizes and container modes the host can set (the count up to the 500 of
\* App.tsx line 337), then one setting changed by the host; every particle
\* is spawned at the full initial velocity
DensityCounts == { 1, 50, 100, 200, 300, 500 }
DensitySizes == { 5, 8, 10, 15, 20 }

DensityChoices ==
  { [DefaultConfiguration EXCEPT !.particleCount = count, !.particleSize = size,
                                 !.dynamicContainerSize = dynamic] :
      count \in DensityCounts, size \in DensitySizes, dynamic \in BOOLEAN }

MountedAt(config) ==
  MountedWith(TRUE, FALSE, config,
              [i \in Bodies(config.particleCount) |-> config.initialVelocity],
              [i \in Bodies(config.particleCount) |-> NoDraw],
              [i \in Bodies(config.particleCount) |-> Centre])

InitDensity == \E config \in DensityChoices : MountedAt(config)

DensityChange ==
  \E config \in DensityChoices :
    SetProps(config,
             [i \in Bodies(config.particleCount) |-> config.initialVelocity],
             [i \in Bodies(config.particleCount) |-> NoDraw],
             [i \in Bodies(config.particleCount) |-> Centre])

NextDensity ==
  \/ DensityChange
  \/ Render

SpecDensity == InitDensity /\ [][NextDensity]_vars

\* SpecSkip: frames of populations large enough for frames to be skipped, at
\* low and at full density, and one change of the configuration
SkipChoices ==
  { [DefaultConfiguration EXCEPT !.particleCount = choice[1], !.particleSize = choice[2]] :
      choice \in { <<100, 5>>, <<200, 5>>, <<400, 5>>, <<400, 15>>, <<600, 5>> } }

InitSkip == \E config \in SkipChoices : MountedAt(config)

SkipChange ==
  \E config \in SkipChoices :
    SetProps(config,
             [i \in Bodies(config.particleCount) |-> config.initialVelocity],
             [i \in Bodies(config.particleCount) |-> NoDraw],
             [i \in Bodies(config.particleCount) |-> Centre])

NextSkip ==
  \/ FrameStep(ShortRunFrames)
  \/ SkipChange

SpecSkip == InitSkip /\ [][NextSkip]_vars

\* SpecFade: a short run whose frame callbacks may take longer than the
\* resolution of the clock
NextFade ==
  \/ FrameStepAcross(ShortRunFrames)
  \/ Render
  \/ \E i \in Particles, vel \in EngineVelocities : EngineStep(i, vel)
  \/ Tick(ClockStep, StartTime + ClockStep * MaxClockSteps)

SpecFade == Init /\ [][NextFade]_vars

\* SpecProximity: a short run with friction in which the engine moves the last
\* body next to the other one, away from it, and up to a wall, at its target
\* speed, above it and at the noise floor of the sign test
ProximityPositions ==
  { Vec(0, 0, 0), Vec(20, 0, 0), Vec(21, 0, 0), Vec(49, 0, 0), Vec(50, 0, 0),
    Vec(104, 0, 0), Vec(115, 0, 0), Vec(116, 0, 0), Vec(0, -110, 0) }

ProximityVelocities ==
  { Vec(200, 0, 0), Vec(-200, 0, 0), Vec(400, 0, 0), Vec(-20, 0, 0), Vec(0, 21, 0) }

InitProximity ==
  Mounted(TRUE, FALSE, 100, 500, 200, MaxParticles,
          [i \in Bodies(MaxParticles) |-> 200],
          [i \in Bodies(MaxParticles) |-> NoDraw],
          [i \in Bodies(MaxParticles) |-> IF i = 0 THEN Centre ELSE Vec(49, 0, 0)])

NextProximity ==
  \/ FrameStep(ShortRunFrames)
  \/ \E position \in ProximityPositions, vel \in ProximityVelocities :
       EngineMove(particleCount - 1, position, vel)

SpecProximity == InitProximity /\ [][NextProximity]_vars

\* SpecStalled: the bodies of SpecProximity, the first of which can be
\* pushed to twice its target speed, with frame callbacks that can be held up
\* between two calls of handleParticleCollision
NextStalled ==
  \/ FrameStepStalled(ShortRunFrames)
  \/ \E position \in ProximityPositions, vel \in ProximityVelocities :
       EngineMove(particleCount - 1, position, vel)
  \/ EngineStep(0, Vec(400, 0, 0))

SpecStalled == InitProximity /\ [][NextStalled]_vars

\* SpecLogging: a run in which the engine drops a body or leaves an invalid
\* velocity, and the initial velocity check fires
LoggingVelocities == { Vec(NaN, 0, 0) }

NextLogging ==
  \/ FrameStep(LoggingFrames)
  \/ InitialVelocityCheck
  \/ \E i \in Particles : HandleDies(i)
  \/ \E vel \in LoggingVelocities : EngineStep(particleCount - 1, vel)
  \/ Tick(VelocityCheckDelay, StartTime + VelocityCheckDelay)

SpecLogging == Init /\ [][NextLogging]_vars

\* SpecRegimes: a short run in each friction regime (zero, low, normal) with
\* the velocities the guard and the corrections are written for
RegimeVelocities ==
  { Vec(0, 0, 0), Vec(200, 0, 0), Vec(NaN, 0, 0), Vec(0, PosInf, 0), Vec(0, -3000, 4000) }

InitRegimes ==
  \E regime \in { <<FALSE, FALSE, 100>>, <<TRUE, FALSE, 10>>, <<TRUE, FALSE, 100>> },
     speeds \in [Bodies(MaxParticles) -> SpawnSpeeds(200)] :
    Mounted(regime[1], regime[2], regime[3], 500, 200, MaxParticles, speeds,
            [i \in Bodies(MaxParticles) |-> NoDraw], [i \in Bodies(MaxParticles) |-> Centre])

NextRegimes ==
  \/ FrameStep(ShortRunFrames)
  \/ \E i \in Particles, vel \in RegimeVelocities : EngineStep(i, vel)

SpecRegimes == InitRegimes /\ [][NextRegimes]_vars

\* SpecCorrector: a short run in each friction regime with target speeds below
\* and above the caps of the corrections; the last body takes the velocities
\* at the borders of their conditions, the others rest or move fast, and the
\* engine may drop one body
CorrectorVelocities(i) ==
  IF i = MaxParticles - 1
  THEN { Vec(0, 0, 0), Vec(6, 0, 0), Vec(10, 0, 0), Vec(170, 0, 0), Vec(400, 0, 0),
         Vec(2000, 0, 0), Vec(0, -1800, 2400), Vec(NaN, 0, 0), Vec(0, PosInf, 0),
         Vec(20200, 0, 0) }
  ELSE { Vec(0, 0, 0), Vec(400, 0, 0) }

InitCorrector ==
  \E regime \in { <<FALSE, FALSE, 100>>, <<TRUE, FALSE, 10>>, <<TRUE, FALSE, 100>> },
     iv \in { 200, 600 } :
    Mounted(regime[1], regime[2], regime[3], 500, iv, MaxParticles,
            [i \in Bodies(MaxParticles) |-> IF i = 0 THEN iv \div 2 ELSE iv],
            [i \in Bodies(MaxParticles) |-> NoDraw], [i \in Bodies(MaxParticles) |-> Centre])

NextCorrector ==
  \/ FrameStep(ShortRunFrames)
  \/ \E i \in Particles : \E vel \in CorrectorVelocities(i) : EngineStep(i, vel)
  \/ \E i \in Particles : HandleDies(i)

SpecCorrector == InitCorrector /\ [][NextCorrector]_vars

\* SpecStall: a long run in which the engine brings bodies to rest
StallVelocities == { Vec(0, 0, 0), Vec(200, 0, 0) }

InitStall ==
  Started(MaxParticles, [i \in Bodies(MaxParticles) |-> 200])

NextStall ==
  \/ FrameStep(MaxFrames)
  \/ \E dirs \in Draws(StallDraws) : StallCheck(dirs)
  \/ \E i \in Particles, vel \in StallVelocities : EngineStep(i, vel)
  \/ Tick(StallClockStep, StartTime + StallClockStep * MaxStallSteps)

SpecStall == InitStall /\ [][NextStall]_vars

\* SpecWatchdog: the stall check with few ticks, unreadable bodies, marginal
\* motion (0.01), velocities that are not numbers, and target speeds below
\* and above the cap of the reseed (initial velocity 3.0)
WatchdogVelocities == { Vec(0, 0, 0), Vec(2, 0, 0), Vec(NaN, 0, 0) }

InitWatchdog ==
  Mounted(TRUE, FALSE, 100, 500, 600, MaxParticles,
          [i \in Bodies(MaxParticles) |-> IF i = 0 THEN 300 ELSE 600],
          [i \in Bodies(MaxParticles) |-> NoDraw],
          [i \in Bodies(MaxParticles) |-> Centre])

NextWatchdog ==
  \/ FrameStep(WatchdogFrames)
  \/ \E dirs \in Draws(StallDraws) : StallCheck(dirs)
  \/ \E i \in Particles, vel \in WatchdogVelocities : EngineStep(i, vel)
  \/ \E i \in Particles : HandleDies(i)
  \/ Tick(StallClockStep, StartTime + StallClockStep * MaxStallSteps)

SpecWatchdog == InitWatchdog /\ [][NextWatchdog]_vars

\* ------------------------------------------------------------------ claims
\* a step that is a processed tick
ProcessedTickStep == statusCheckCounter' = statusCheckCounter + 1

\* C1: in every reachable state, for every particle with a collision status,
\* isColliding is true exactly when collisionTime is not 0
StatusConsistent ==
  \A p \in DOMAIN particleCollisionStatus :
    particleCollisionStatus[p].isColliding <=> particleCollisionStatus[p].collisionTime # 0

\* C1 happens: a tick has marked a particle, which is colliding since an
\* earlier tick
StatusMutated ==
  \E p \in Particles :
    /\ \E k \in DOMAIN lastTick.marks : lastTick.marks[k].id = p
    /\ particleCollisionStatus[p].isColliding
    /\ collidingSince[p] < particleCollisionStatus[p].collisionTime

\* C8: a tick that calls onCollisionCountUpdate leaves the collision counter at
\* 0, and it comes at least 0.5 s after the previous call
FlushContract ==
  [][ (ProcessedTickStep /\ lastTick'.flushed)
        => /\ collisionCounter' = 0
           /\ lastFlushAt # 0 => now - lastFlushAt >= CollisionReportPeriod ]_vars

\* C8 happens: a tick other than the first one has flushed (the first tick
\* always flushes), with collisions counted since
SecondFlush ==
  /\ lastTick.flushed
  /\ statusCheckCounter >= 2
  /\ lastTick.marks # <<>>

\* the stuck-particle check calls a particle stuck
Stuck(p) ==
  /\ p \in DOMAIN particleCollisionStatus
  /\ particleCollisionStatus[p].isColliding
  /\ now - particleCollisionStatus[p].collisionTime > collisionFadeDuration * 2

\* a processed tick runs: it is the only step that advances statusCheckCounter,
\* and one can run whenever fewer than MaxFrames of them have run
TickRuns ==
  /\ statusCheckCounter < MaxFrames
  /\ statusCheckCounter' = statusCheckCounter + 1

\* SpecTicking: the frame loop keeps running, so processed ticks continue
SpecTicking == Spec /\ WF_statusCheckCounter(TickRuns)

\* C6: the tick in which the stuck-particle check is due resets every stuck
\* particle that the tick did not mark again to Idle and leaves no particle
\* stuck; and while ticks continue up to the status check, a stuck particle
\* stops being stuck
StuckRecovered ==
  /\ [][ (ProcessedTickStep /\ StuckCheckDue(statusCheckCounter + 1))
           => /\ \A p \in Particles :
                   (Stuck(p) /\ \A k \in DOMAIN lastTick'.marks : lastTick'.marks[k].id # p)
                     => particleCollisionStatus'[p] = IdleStatus
              /\ \A p \in Particles :
                   ~( /\ particleCollisionStatus'[p].isColliding
                      /\ now - particleCollisionStatus'[p].collisionTime
                           > collisionFadeDuration * 2 ) ]_vars
  /\ \A p \in Bodies(MaxParticles) :
       (Stuck(p) /\ statusCheckCounter < StatusCheckPeriod) ~> ~Stuck(p)

\* C6 happens: the stuck-particle check has reset a particle that no fade
\* pass had cleared
StuckWasReset ==
  /\ lastTick.stuckChecked
  /\ lastTick.stuckReset # {}
  /\ \A p \in lastTick.stuckReset : particleCollisionStatus[p] = IdleStatus

\* C7: after a tick in which the stuck-particle check ran, no particle has
\* been colliding without interruption for longer than 2 x collisionFadeDuration
\* plus the period of the check
NoLongCollision ==
  [][ (ProcessedTickStep /\ lastTick'.stuckChecked)
        => \A p \in Particles :
             collidingSince'[p] # 0
               => now - collidingSince'[p] <= collisionFadeDuration * 2 + StuckCheckPeriod ]_vars

\* C2: after every processed tick no readable body has a velocity component
\* that is NaN or infinite, and with both friction flags off no component
\* exceeds 10.0 in magnitude
VelocitiesValidAfterTick ==
  [][ ProcessedTickStep
        => \A i \in Particles \ deadHandles :
             /\ IsFinite(linvel'[i].x) /\ IsFinite(linvel'[i].y) /\ IsFinite(linvel'[i].z)
             /\ (~particleParticleFriction /\ ~particleWallFriction)
                  => /\ Abs(linvel'[i].x) <= HardSpeedCap
                     /\ Abs(linvel'[i].y) <= HardSpeedCap
                     /\ Abs(linvel'[i].z) <= HardSpeedCap ]_vars

\* C3: a run of the stall check that finds more than 5 s without activity,
\* every particle at rest and every body readable reseeds the velocities
StallReseeds ==
  watchdog.stalledAtRun => watchdog.outcome = "reseed"

\* a step in which the stall check reseeds
ReseedStep == watchdog'.reseeds = watchdog.reseeds + 1

\* C4 as stated: the stall check reseeds only when more than 5 s have passed
\* since lastActivityTime and every readable particle has a speed of at most 0.005
ReseedOnlyAtLowSpeed ==
  [][ ReseedStep
        => /\ now - lastActivityTime > StallTimeout
           /\ \A i \in Particles \ deadHandles :
                /\ IsFinite(SpeedOf(linvel[i]))
                /\ SpeedOf(linvel[i]) <= StallMovementFloor ]_vars

\* C4 amended: the stall check reseeds only when more than 5 s have passed
\* since lastActivityTime and no readable particle has a speed above 0.005
\* (each speed is at most 0.005 or is not a number)
ReseedOnlyWhenStalled ==
  [][ ReseedStep
        => /\ now - lastActivityTime > StallTimeout
           /\ \A i \in Particles \ deadHandles :
                ~Gt(SpeedOf(linvel[i]), StallMovementFloor) ]_vars

\* C4 happens: the stall check has just reseeded, for the first time, with
\* every body readable
ReseededOnce ==
  /\ watchdog.outcome = "reseed"
  /\ watchdog.reseeds = 1
  /\ watchdog.lastReseedAt = now
  /\ deadHandles = {}

\* the target speed the stall check reads for body i
ReseedTarget(i) ==
  IF i \in DOMAIN particleSpeeds /\ particleSpeeds[i] # 0
  THEN particleSpeeds[i] ELSE initialVelocity

\* C5 as stated: a reseed gives every particle a velocity of magnitude
\* min(target speed, 2.0) and sets lastActivityTime to the current time, and
\* it comes more than 5 s after the previous reseed
ReseedEveryParticle ==
  [][ ReseedStep
        => /\ \A i \in Particles :
                SpeedOf(linvel'[i]) = Min(ReseedTarget(i), StallSpeedCap)
           /\ lastActivityTime' = now
           /\ watchdog.lastReseedAt # 0
                => now - watchdog.lastReseedAt > StallTimeout ]_vars

\* C5 amended: a reseed gives every particle whose body accepts the call a
\* velocity of magnitude min(target speed, 2.0) and sets lastActivityTime to
\* the current time, and it comes more than 5 s after the previous reseed
ReseedContract ==
  [][ ReseedStep
        => /\ \A i \in Particles \ deadHandles :
                SpeedOf(linvel'[i]) = Min(ReseedTarget(i), StallSpeedCap)
           /\ lastActivityTime' = now
           /\ watchdog.lastReseedAt # 0
                => now - watchdog.lastReseedAt > StallTimeout ]_vars

\* C5 happens: the stall check has reseeded a second time, one particle at
\* its target speed and one at the cap
ReseededTwice ==
  /\ watchdog.reseeds = 2
  /\ watchdog.lastReseedAt = now
  /\ \E i, j \in Particles \ deadHandles :
       /\ SpeedOf(linvel[i]) = StallSpeedCap /\ ReseedTarget(i) > StallSpeedCap
       /\ SpeedOf(linvel[j]) = ReseedTarget(j) /\ ReseedTarget(j) < StallSpeedCap

\* the collisionTime and isColliding that the k-th call of
\* handleParticleCollision in a tick finds for its particle
FoundColliding(k) ==
  LET id == lastTick'.marks[k].id
  IN \/ \E j \in 1 .. (k - 1) : lastTick'.marks[j].id = id
     \/ id \in DOMAIN particleCollisionStatus /\ particleCollisionStatus[id].isColliding

FoundTime(k) ==
  LET id == lastTick'.marks[k].id
  IN IF \E j \in 1 .. (k - 1) : lastTick'.marks[j].id = id THEN now
     ELSE IF id \in DOMAIN particleCollisionStatus
     THEN particleCollisionStatus[id].collisionTime ELSE 0

RECURSIVE AddedUpTo(_, _)
AddedUpTo(marks, k) == IF k = 0 THEN 0 ELSE marks[k].added + AddedUpTo(marks, k - 1)

\* C9: each call of handleParticleCollision adds 1 to the collision counter
\* exactly when the particle was not colliding or its collisionTime is older
\* than collisionFadeDuration, adds 0 otherwise, and leaves the particle
\* colliding with collisionTime the current time
MarkContract ==
  [][ ProcessedTickStep
        => /\ \A k \in DOMAIN lastTick'.marks :
                /\ lastTick'.marks[k].added
                     = IF ~FoundColliding(k) \/ now - FoundTime(k) > collisionFadeDuration
                       THEN 1 ELSE 0
                /\ particleCollisionStatus'[lastTick'.marks[k].id].isColliding
                /\ particleCollisionStatus'[lastTick'.marks[k].id].collisionTime = now
           /\ collisionCounter'
                = IF lastTick'.flushed THEN 0
                  ELSE collisionCounter + AddedUpTo(lastTick'.marks, Len(lastTick'.marks)) ]_vars

\* C9 happens: one tick has marked with a new collision and without one, and
\* a particle that was already colliding for longer than the fade was counted
MarkedBothWays ==
  /\ \E j, k \in DOMAIN lastTick.marks :
       lastTick.marks[j].added = 1 /\ lastTick.marks[k].added = 0
  /\ \E p \in Particles :
       /\ collidingSince[p] # 0
       /\ now - collidingSince[p] > collisionFadeDuration
       /\ lastTick.marks[1].id = p

\* the state the reinitialisation path leaves: every particle id has a
\* cleared collision status and a target speed in [0.5 x initialVelocity,
\* initialVelocity]
Reinitialized ==
  /\ DOMAIN particleCollisionStatus = Particles
  /\ DOMAIN particleSpeeds = Particles
  /\ \A i \in Particles :
       /\ particleCollisionStatus[i] = IdleStatus
       /\ 2 * particleSpeeds[i] >= initialVelocity
       /\ particleSpeeds[i] <= initialVelocity

\* C10: the mount and every later run of the reinitialisation path leave the
\* state Reinitialized, whatever the collision statuses were before
ReinitClean ==
  /\ Reinitialized
  /\ [][ resetCounter' # resetCounter => Reinitialized' ]_vars

\* C10 happens: the path has run again after a tick that left particles
\* colliding, and no tick has run since
ReinitializedAgain ==
  /\ resetCounter = 2
  /\ lastTick.marks # <<>>
  /\ previousVelocities = EmptyMap
  /\ Reinitialized


\* the per-particle state of the population is fresh: cleared statuses, target
\* speeds and velocities as generated, no previous velocities, no dead handle
FreshPopulation ==
  /\ Reinitialized
  /\ DOMAIN linvel = Particles
  /\ \A i \in Particles : SpeedOf(linvel[i]) = particleSpeeds[i]
  /\ previousVelocities = EmptyMap
  /\ deadHandles = {}

ZeroFriction == ~particleParticleFriction /\ ~particleWallFriction
LowFriction == ~ZeroFriction /\ frictionCoefficient < LowFrictionLimit
NormalFriction == ~ZeroFriction /\ frictionCoefficient >= LowFrictionLimit

\* the target speed a tick reads for body i: particleSpeeds.get(i) || 0.5
OriginalSpeed(i) ==
  IF i \in DOMAIN particleSpeeds /\ particleSpeeds[i] # 0
  THEN particleSpeeds[i] ELSE DefaultOriginalSpeed

\* the bodies a tick reads with a valid velocity
ValidBodies == { i \in Particles \ deadHandles : ~hasInvalidVelocity(linvel[i]) }

\* C12 as stated: in the zero-friction regime a tick gives a particle sampled
\* below 0.05 a velocity of magnitude equal to its target speed
ReseedToTarget ==
  [][ (ProcessedTickStep /\ ZeroFriction)
        => \A i \in ValidBodies :
             Lt(SpeedOf(linvel[i]), ReseedSpeedFloor)
               => SpeedOf(linvel'[i]) = OriginalSpeed(i) ]_vars

\* C12 amended: in the zero-friction regime a tick gives a particle sampled
\* below 0.05 a velocity in a drawn direction of magnitude min(target speed,
\* 1.0), which is the reseed and not the boost of the sampled velocity
ReseedToCappedTarget ==
  [][ (ProcessedTickStep /\ ZeroFriction)
        => \A i \in ValidBodies :
             Lt(SpeedOf(linvel[i]), ReseedSpeedFloor)
               => /\ SpeedOf(linvel'[i]) = Min(OriginalSpeed(i), ReseedSpeedCap)
                  /\ \E dir \in Directions :
                       linvel'[i] = RandomVelocity(Min(OriginalSpeed(i), ReseedSpeedCap), dir) ]_vars

\* C12 happens: a tick in the zero-friction regime sampled a particle of target
\* speed 1.0 at speed 0.03 and left it at speed 1.0 in a new direction
ReseededSlowParticle ==
  /\ ZeroFriction
  /\ statusCheckCounter >= 1
  /\ \E i \in Particles :
       /\ i \in DOMAIN previousVelocities
       /\ previousVelocities[i] = Vec(6, 0, 0)
       /\ OriginalSpeed(i) = 200
       /\ SpeedOf(linvel[i]) = 200
       /\ linvel[i].x = 0


\* C13: in the zero-friction regime a tick leaves unchanged the velocity of a
\* particle whose sampled speed s is finite with 0.05 <= s <= 10.0 and
\* s >= 0.85 x target speed
FastParticleKept ==
  [][ (ProcessedTickStep /\ ZeroFriction)
        => \A i \in Particles \ deadHandles :
             ( /\ IsFinite(SpeedOf(linvel[i]))
               /\ SpeedOf(linvel[i]) >= ReseedSpeedFloor
               /\ SpeedOf(linvel[i]) <= HardSpeedCap
               /\ SpeedOf(linvel[i]) * 100 >= 85 * OriginalSpeed(i) )
               => linvel'[i] = linvel[i] ]_vars

\* C13 happens: a tick in the zero-friction regime sampled a particle at twice
\* its target speed or more, or at exactly 0.85 of it, and left the velocity
KeptFastParticle ==
  /\ ZeroFriction
  /\ statusCheckCounter >= 1
  /\ \E i, j \in Particles :
       /\ i \in DOMAIN previousVelocities /\ j \in DOMAIN previousVelocities
       /\ previousVelocities[i] = linvel[i]
       /\ SpeedOf(linvel[i]) >= 2 * OriginalSpeed(i)
       /\ previousVelocities[j] = linvel[j]
       /\ SpeedOf(linvel[j]) * 100 = 85 * OriginalSpeed(j)


\* C14: in the low-friction regime a tick writes the velocity of a particle
\* with a valid sampled velocity only when its speed is below 50% of the
\* target and below 0.1, and the velocity written has a finite speed greater
\* than the sampled speed
LowFrictionOnlyBoosts ==
  [][ (ProcessedTickStep /\ LowFriction)
        => \A i \in ValidBodies :
             linvel'[i] # linvel[i]
               => /\ SpeedOf(linvel[i]) * 2 < OriginalSpeed(i)
                  /\ SpeedOf(linvel[i]) < LowFrictionSpeedFloor
                  /\ IsFinite(SpeedOf(linvel'[i]))
                  /\ SpeedOf(linvel'[i]) > SpeedOf(linvel[i]) ]_vars


\* C15: in the normal-friction regime a tick leaves unchanged the velocity of
\* every particle whose sampled velocity is valid
NormalFrictionKeepsVelocity ==
  [][ (ProcessedTickStep /\ NormalFriction)
        => \A i \in ValidBodies : linvel'[i] = linvel[i] ]_vars

\* C15 happens: a tick in the normal-friction regime sampled a particle at
\* rest, far below its target speed, and left it at rest
KeptRestingParticle ==
  /\ NormalFriction
  /\ statusCheckCounter >= 1
  /\ \E i \in Particles :
       /\ i \in DOMAIN previousVelocities
       /\ previousVelocities[i] = Vec(0, 0, 0)
       /\ linvel[i] = Vec(0, 0, 0)
       /\ OriginalSpeed(i) >= 100

\* C16: in every friction regime a tick marks a particle whose sampled velocity
\* is invalid as colliding and its guard writes it a velocity of magnitude
\* min(target speed, 2.0)
InvalidVelocityGuarded ==
  [][ ProcessedTickStep
        => \A i \in (Particles \ deadHandles) \ ValidBodies :
             /\ \E k \in DOMAIN lastTick'.marks : lastTick'.marks[k].id = i
             /\ particleCollisionStatus'[i].isColliding
             /\ particleCollisionStatus'[i].collisionTime = now
             /\ i \in DOMAIN lastTick'.guarded
             /\ SpeedOf(lastTick'.guarded[i]) = Min(OriginalSpeed(i), GuardSpeedCap) ]_vars

\* C16 happens: the guard has replaced the invalid velocity of a particle with
\* a target speed above 2.0 by one of speed 2.0, and the particle is colliding
GuardReplaced ==
  \E i \in DOMAIN lastTick.guarded :
    /\ particleCollisionStatus[i].isColliding
    /\ OriginalSpeed(i) > GuardSpeedCap
    /\ SpeedOf(lastTick.guarded[i]) = GuardSpeedCap


\* C17: in a tick in which the engine calls of one body throw, every other
\* body is processed by the first pass (its position and its sampled velocity
\* are recorded, or its invalid velocity is replaced) and by the third pass
\* (the correction of its regime is applied), and the tick reaches its
\* metrics: the collision count is flushed when it is due
OthersProcessed ==
  [][ (ProcessedTickStep /\ deadHandles # {})
        => /\ \A j \in Particles \ deadHandles :
                /\ j \in DOMAIN particlePositions'
                /\ particlePositions'[j] = translation[j]
                /\ j \in ValidBodies
                     => j \in DOMAIN previousVelocities' /\ previousVelocities'[j] = linvel[j]
                /\ j \notin ValidBodies => j \in DOMAIN lastTick'.guarded
                /\ (j \in ValidBodies /\ ZeroFriction /\ Lt(SpeedOf(linvel[j]), ReseedSpeedFloor))
                     => SpeedOf(linvel'[j]) = Min(OriginalSpeed(j), ReseedSpeedCap)
                /\ (j \in ValidBodies /\ LowFriction /\ SpeedOf(linvel[j]) > 0
                      /\ SpeedOf(linvel[j]) < LowFrictionSpeedFloor)
                     => SpeedOf(linvel'[j]) > SpeedOf(linvel[j])
           /\ lastTick'.flushed <=> FlushDue
           /\ lastTick'.flushed => collisionCounter' = 0 ]_vars

\* C17 happens: a tick that flushed the collision count has run while the
\* calls of body 0 threw, and it reseeded a later body in the zero-friction
\* regime
ProcessedDespiteThrow ==
  /\ deadHandles = {0}
  /\ statusCheckCounter >= 1
  /\ 0 \notin DOMAIN particlePositions
  /\ lastTick.flushed
  /\ ZeroFriction
  /\ \E j \in Particles \ deadHandles :
       /\ j \in DOMAIN previousVelocities
       /\ Lt(SpeedOf(previousVelocities[j]), ReseedSpeedFloor)
       /\ SpeedOf(linvel[j]) = Min(OriginalSpeed(j), ReseedSpeedCap)

\* ---------------------------------------------------------------- C18
LevelRank(level) == CASE level = "none" -> 0 [] level = "warning" -> 1 [] level = "critical" -> 2

\* the warning level is the one the thresholds give to the packing ratio
LevelMatchesThresholds ==
  /\ densityStats.warningLevel = "critical" <=> densityStats.packingRatio >= CriticalThreshold
  /\ densityStats.warningLevel = "warning"
       <=> (densityStats.packingRatio >= WarningThreshold
            /\ densityStats.packingRatio < CriticalThreshold)
  /\ densityStats.warningLevel = "none" <=> densityStats.packingRatio < WarningThreshold

\* 100 particles of radius 0.08 in a container of side 2.5 have level 'none'
DefaultDensityIsNone ==
  (particleCount = 100 /\ particleRadius = 8 /\ containerSize = 250)
    => densityStats.warningLevel = "none"

\* a change that does not shrink the count or the radius and keeps the
\* container size neither lowers the packing ratio nor the warning level
GrowthNeverLowers ==
  (/\ particleCount' >= particleCount
   /\ particleRadius' >= particleRadius
   /\ containerSize' = containerSize)
    => /\ densityStats'.packingRatio >= densityStats.packingRatio
       /\ LevelRank(densityStats'.warningLevel) >= LevelRank(densityStats.warningLevel)

\* C18: warningLevel is 'critical' exactly when packingRatio >= 0.2, 'warning'
\* exactly when 0.1 <= packingRatio < 0.2 and 'none' otherwise; packingRatio
\* and the level never decrease when the particle count or the radius grows
\* at fixed container size; 100 particles of radius 0.08 in a container of
\* side 2.5 give level 'none'.
PackingRatioContract ==
  [](LevelMatchesThresholds /\ DefaultDensityIsNone) /\ [][GrowthNeverLowers]_vars

\* the host has raised the count or the radius at fixed container size and
\* the level is now 'critical'
GrewToCritical ==
  /\ resetCounter = 2
  /\ densityStats.warningLevel = "critical"
  /\ ~dynamicContainerSize
  /\ particleCount = 500 /\ particleRadius = 15

\* ---------------------------------------------------------------- C19
\* n is the largest particle count whose packing ratio, at the current radius
\* and container size, is below the critical threshold (the ratio never
\* decreases with the count, C18)
LargestBelowCritical(n) ==
  /\ calculatePackingRatio(n, particleRadius, containerSize).packingRatio < CriticalThreshold
  /\ calculatePackingRatio(n + 1, particleRadius, containerSize).packingRatio >= CriticalThreshold

\* the host's maxAllowableParticles is that count
HostMaxIsLargestBelowCritical == LargestBelowCritical(maxAllowableParticles)

\* C19: maxAllowableParticles, as used by the host and as carried in the
\* density snapshot delivered through onDensityWarning, is the largest
\* integer particle count whose packing ratio is below the critical
\* threshold 0.2.
MaxAllowableEverywhere ==
  /\ HostMaxIsLargestBelowCritical
  /\ Read(densityWarning, "maxAllowableParticles") # Undefined
  /\ LargestBelowCritical(Read(densityWarning, "maxAllowableParticles"))

\* ---------------------------------------------------------------- C20
\* C20: the fade progress computed for a particle in any tick is within
\* [0, 1], also in the tick in which the particle was marked colliding.
FadeProgressWithinUnit ==
  \A i \in DOMAIN lastTick.fade :
    /\ IsFinite(lastTick.fade[i])
    /\ lastTick.fade[i] >= 0
    /\ lastTick.fade[i] <= 1000

\* ---------------------------------------------------------------- C21
\* C21: the number of console diagnostics emitted for invalid kinematics and
\* for engine read/write errors is bounded by a constant and does not grow
\* with the number of ticks in which the fault persists: once as many
\* diagnostics as the limit the catch blocks test (5) have been emitted, a
\* further processed tick emits none.
DiagnosticsBounded ==
  [][ (ProcessedTickStep /\ consoleDiagnostics >= IssueLogLimit)
        => consoleDiagnostics' = consoleDiagnostics ]_vars

\* ---------------------------------------------------------------- C22
\* particle p is colliding before the step and the step's tick does not mark it
CollidingUnmarked(p) ==
  /\ p \in DOMAIN particleCollisionStatus
  /\ particleCollisionStatus[p].isColliding
  /\ \A k \in DOMAIN lastTick'.marks : lastTick'.marks[k].id # p

\* the fade duration has elapsed since p's collisionTime when the tick reads
\* the clock (line 686)
FadeElapsed(p) == now - particleCollisionStatus[p].collisionTime >= collisionFadeDuration

GuardedVelocityFinal ==
  [][ ProcessedTickStep
        => \A i \in DOMAIN lastTick'.guarded :
             /\ linvel'[i] = lastTick'.guarded[i]
             /\ SpeedOf(linvel'[i]) = Min(OriginalSpeed(i), GuardSpeedCap) ]_vars

\* the same outside the zero-friction regime, where the third pass leaves the
\* guard's velocity alone
GuardedVelocityFinalWithFriction ==
  [][ (ProcessedTickStep /\ (particleParticleFriction \/ particleWallFriction))
        => \A i \in DOMAIN lastTick'.guarded :
             /\ linvel'[i] = lastTick'.guarded[i]
             /\ SpeedOf(linvel'[i]) = Min(OriginalSpeed(i), GuardSpeedCap) ]_vars

\* the calls of setLinvel a tick made for body i
WritesOf(tick, i) == SelectSeq(tick.writes, LAMBDA w : w.id = i)

\* b has the direction of a: their cross product is 0 and their dot product
\* is positive
SameDirection(a, b) ==
  /\ a.y * b.z = a.z * b.y
  /\ a.z * b.x = a.x * b.z
  /\ a.x * b.y = a.y * b.x
  /\ a.x * b.x + a.y * b.y + a.z * b.z > 0

\* C24: in the zero-friction regime a tick scales the velocity of a particle of
\* valid sampled speed s, direction kept, to speed 10.0 if s > 10.0 and to
\* min(target speed, 5.0) if 0.05 <= s <= 10.0 and s < 0.85 x target speed, and
\* it applies exactly one of reseed, cap, boost or no change to it
ZeroFrictionCapAndBoost ==
  [][ (ProcessedTickStep /\ ZeroFriction)
        => \A i \in ValidBodies :
             LET s == SpeedOf(linvel[i])
                 calls == WritesOf(lastTick', i)
             IN /\ s > HardSpeedCap
                     => /\ SpeedOf(linvel'[i]) = HardSpeedCap
                        /\ SameDirection(linvel[i], linvel'[i])
                        /\ calls = << [id |-> i, branch |-> "cap"] >>
                /\ (s >= ReseedSpeedFloor /\ s <= HardSpeedCap /\ s * 100 < 85 * OriginalSpeed(i))
                     => /\ SpeedOf(linvel'[i]) = Min(OriginalSpeed(i), BoostSpeedCap)
                        /\ SameDirection(linvel[i], linvel'[i])
                        /\ calls = << [id |-> i, branch |-> "boost"] >>
                /\ s < ReseedSpeedFloor => calls = << [id |-> i, branch |-> "reseed"] >>
                /\ (s <= HardSpeedCap /\ s * 100 >= 85 * OriginalSpeed(i))
                     => calls = <<>> /\ linvel'[i] = linvel[i] ]_vars

\* C24 happens: a tick in the zero-friction regime has capped a particle
\* sampled at speed 15.0 to speed 10.0 in its direction, with one call
CappedFastParticle ==
  /\ ZeroFriction
  /\ \E i \in Particles :
       /\ i \in DOMAIN previousVelocities
       /\ previousVelocities[i] = Vec(0, -1800, 2400)
       /\ linvel[i] = Vec(0, -1200, 1600)
       /\ WritesOf(lastTick, i) = << [id |-> i, branch |-> "cap"] >>

\* the axes of a position or velocity
Axes == { "x", "y", "z" }

\* halfSize - radius - 0.02, the distance from the centre beyond which a
\* particle of the configured size is at a wall
WallDistance == halfSize - particleRadius - wallProximityThreshold

\* C25: a tick classifies a particle it reads with a valid velocity as
\* wall-colliding exactly when, on some axis, |position| > halfSize - radius -
\* 0.02 and the velocity has the sign of the position, or |position| > 0.9 x
\* that distance, the sign of the velocity differs from that of the recorded
\* previousVelocity and |velocity| > 0.1; without a recorded previousVelocity
\* only the first rule can match
WallClassification ==
  [][ ProcessedTickStep
        => \A i \in ValidBodies :
             i \in lastTick'.walls
               <=> \E axis \in Axes :
                     LET p == translation[i][axis]
                         v == linvel[i][axis]
                     IN \/ Abs(p) > WallDistance /\ Sign(p) = Sign(v)
                        \/ /\ 10 * Abs(p) > 9 * WallDistance
                           /\ i \in DOMAIN previousVelocities
                           /\ Sign(v) # Sign(previousVelocities[i][axis])
                           /\ Abs(v) > 20 ]_vars

\* C25 happens: a tick has classified a particle within 0.9 x the wall distance
\* but not beyond it as wall-colliding, its velocity having turned away from
\* the wall since the tick before
TurnedAtWall ==
  \E i \in lastTick.walls :
    /\ translation[i] = Vec(104, 0, 0)
    /\ linvel[i] = Vec(-200, 0, 0)
    /\ statusCheckCounter = 2

\* the local density of body i blended with the global one (lines 754-764),
\* from the count a tick has stored for it
EffectiveDensity(tick, i) ==
  effectiveDensity(IF i \in DOMAIN tick.density THEN tick.density[i] ELSE 0)

\* body i, sampled with a valid velocity, is a candidate of the tick:
\* |speed - target| / target > speedChangeThreshold and
\* speed > minSpeedForCollision
IsCandidate(tick, i) ==
  LET adjusted == calculateDensityAdjustedThreshold(EffectiveDensity(tick, i))
      speed == SpeedOf(linvel[i])
  IN /\ Abs(speed - OriginalSpeed(i)) * 10000 > adjusted.speedChangeThreshold * OriginalSpeed(i)
     /\ speed > adjusted.minSpeedForCollision

\* the tick has called handleParticleCollision for body i
MarkedIn(tick, i) == \E k \in DOMAIN tick.marks : tick.marks[k].id = i

\* the centres of bodies i and o are within proximityThreshold + 2 x radius
Touching(i, o) ==
  Dist2(translation[i], translation[o])
    < (proximityThreshold + 2 * particleRadius) * (proximityThreshold + 2 * particleRadius)

\* C26: a tick marks every candidate (valid velocity, |speed - target| / target
\* > speedChangeThreshold, speed > minSpeedForCollision) and every other
\* particle whose centre is within proximityThreshold + 2 x radius of the
\* candidate's centre as colliding; the candidates are those of the rule and
\* no neighbour is left out (particle counts up to 500)
CandidatesAndNeighboursMarked ==
  [][ ProcessedTickStep
        => /\ lastTick'.potential = { i \in ValidBodies : IsCandidate(lastTick', i) }
           /\ \A c \in lastTick'.potential :
                /\ MarkedIn(lastTick', c)
                /\ particleCollisionStatus'[c].isColliding
                /\ \A o \in Particles \ {c} :
                     Touching(c, o)
                       => MarkedIn(lastTick', o) /\ particleCollisionStatus'[o].isColliding ]_vars

\* C26 happens: a tick has marked a particle that is no candidate and at no
\* wall because its centre is 0.20 from the centre of a candidate
NeighbourMarked ==
  \E c \in lastTick.potential :
    \E o \in Particles \ (lastTick.potential \cup lastTick.walls) :
      /\ MarkedIn(lastTick, o)
      /\ particleCollisionStatus[o].isColliding
      /\ Dist2(translation[c], translation[o]) = 20 * 20

\* C27: after the first pass of every processed tick the previousVelocity of
\* every particle whose body was read without error is the velocity sampled
\* for it in that tick
PreviousVelocityRecorded ==
  [][ ProcessedTickStep
        => \A i \in Particles \ deadHandles :
             /\ i \in DOMAIN previousVelocities'
             /\ previousVelocities'[i] = linvel[i] ]_vars

\* the same for the particles sampled with a valid velocity, which reach the
\* update of line 788
ValidVelocityRecorded ==
  [][ ProcessedTickStep
        => \A i \in ValidBodies :
             /\ i \in DOMAIN previousVelocities'
             /\ previousVelocities'[i] = linvel[i] ]_vars

\* the other particles of the population whose position, as the engine holds
\* it during the tick, is within localDensityRadius of that of body i
NearbyParticles(i) ==
  { o \in Particles \ {i} :
      Dist2(translation[i], translation[o]) < localDensityRadius * localDensityRadius }

\* C28: the local density count a tick uses for a particle is the number of
\* other particles of the current population whose position sampled in that
\* tick is within localDensityRadius (0.5) of the particle's sampled position
LocalDensityCount ==
  [][ ProcessedTickStep
        => \A i \in Particles \ deadHandles :
             /\ i \in DOMAIN lastTick'.density
             /\ lastTick'.density[i] = Cardinality(NearbyParticles(i)) ]_vars

\* the count of the body the loop visits last, once every body has a stored
\* position: every other position in the map is of the same tick
LastBodyDensityCount ==
  [][ (ProcessedTickStep /\ DOMAIN particlePositions = Particles)
        => LET i == particleCount - 1
           IN /\ i \in DOMAIN lastTick'.density
              /\ lastTick'.density[i] = Cardinality(NearbyParticles(i)) ]_vars

\* the local density counts on both sides of localDensityThreshold
LocalCounts == { 0, localDensityThreshold - 1, localDensityThreshold, localDensityThreshold + 1 }

\* densities from 0 to 1 in steps of 0.025
DensityGrid == { 250 * k : k \in 0 .. 40 }

\* the densities of the grid and the effective densities of the configuration
SampledDensities == DensityGrid \cup { effectiveDensity(nearbyCount) : nearbyCount \in LocalCounts }

\* the thresholds are within their ranges: speedChangeThreshold in
\* [0.04, 0.2], minSpeedForCollision in [0.05, 0.5]
ThresholdsInRange(adjusted) ==
  /\ adjusted.speedChangeThreshold >= 400
  /\ adjusted.speedChangeThreshold <= 2000
  /\ adjusted.minSpeedForCollision >= 10
  /\ adjusted.minSpeedForCollision <= 100

\* neither threshold of `high` is above that of `low`
NotAbove(high, low) ==
  /\ high.speedChangeThreshold <= low.speedChangeThreshold
  /\ high.minSpeedForCollision <= low.minSpeedForCollision

RECURSIVE ProcessedIn(_)
ProcessedIn(frames) ==
  IF frames = <<>> THEN 0
  ELSE (IF Head(frames) THEN 1 ELSE 0) + ProcessedIn(Tail(frames))

\* C30: the frame-skip factor k = floor(particleCount / 200) -
\* floor(particleDensity / 0.5), clamped, is an integer in 0..3, and under a
\* fixed configuration the passes run on exactly one frame out of every k + 1
\* consecutive frames
FrameSkipContract ==
  /\ adaptiveFrameSkipCount \in 0 .. 3
  /\ adaptiveFrameSkipCount
       = Min(3, Max(0, (particleCount \div 200) - (particleDensity \div 5000)))
  /\ Len(recentFrames) = adaptiveFrameSkipCount + 1 => ProcessedIn(recentFrames) = 1

\* C30 happens: with 400 particles at low density two frames were skipped and
\* the passes ran on the third, for the second time
RanEveryThirdFrame ==
  /\ adaptiveFrameSkipCount = 2
  /\ recentFrames = <<FALSE, FALSE, TRUE>>
  /\ statusCheckCounter = 2


\* C31: the values handed to onCollisionCountUpdate plus the counter always
\* account for every counted collision: a processed tick moves exactly what it
\* counted into the counter or into the report of its flush, a tick that does
\* not flush reports nothing, and no other step touches the counter
CountConserved ==
  [][ IF ProcessedTickStep
      THEN /\ lastTick'.reported + collisionCounter'
                = collisionCounter + AddedUpTo(lastTick'.marks, Len(lastTick'.marks))
           /\ ~lastTick'.flushed => lastTick'.reported = 0
      ELSE collisionCounter' = collisionCounter ]_vars

\* C31 happens: a flush has reported collisions counted by earlier ticks
\* together with those of its own tick
ReportedCarriedCount ==
  /\ lastTick.flushed
  /\ AddedUpTo(lastTick.marks, Len(lastTick.marks)) > 0
  /\ lastTick.reported > AddedUpTo(lastTick.marks, Len(lastTick.marks))


\* ---------------------------------------------------------------- C32
\* SpecHost: the host of App.tsx at its defaults, and the controls of the
\* Particle Parameters section changing the particle count, the particle size
\* and the container mode
HostDefaults == [DefaultConfiguration EXCEPT !.particleCount = 100]
HostCounts == { 10 } \cup { 50 * k : k \in 1 .. 10 }
HostSizes == 2 .. 20

\* the side of the container for the settings of `config` (App.tsx line 259)
HostContainerSize(config) ==
  IF config.dynamicContainerSize THEN getContainerSize(config.particleCount)
  ELSE BASE_CONTAINER_SIZE

\* maxParticleCount handed to the control panel (App.tsx line 337)
maxParticleCount == Min(500, maxAllowableParticles)

\* handleDensityWarning (App.tsx lines 110-123) for the snapshot that the core
\* delivers once it has rendered with `config`: the particle count becomes
\* warning.maxAllowableParticles when warning.exceedsMaximum is truthy
handleDensityWarning(config) ==
  LET warning == calculatePackingRatio(config.particleCount, config.particleSize,
                                       HostContainerSize(config))
  IN IF Read(warning, "exceedsMaximum") # Undefined /\ warning.exceedsMaximum = TRUE
     THEN [config EXCEPT !.particleCount = warning.maxAllowableParticles]
     ELSE config

\* the host renders with `config`, the core delivers its density snapshot and
\* the host handles it
HostChange(config) ==
  \E settled \in { handleDensityWarning(config) } :
    SetProps(settled,
             [i \in Bodies(settled.particleCount) |-> settled.initialVelocity],
             [i \in Bodies(settled.particleCount) |-> NoDraw],
             [i \in Bodies(settled.particleCount) |-> Centre])

\* the Particle Count slider (ControlPanel lines 506-515)
ParticleCountSlider ==
  \E value \in HostCounts :
    HostChange([Configuration EXCEPT !.particleCount = Min(value, maxParticleCount)])

\* the Particle Size slider (ControlPanel lines 522-529)
ParticleSizeSlider ==
  \E value \in HostSizes : HostChange([Configuration EXCEPT !.particleSize = value])

\* the Scale Container with Particle Count switch (ControlPanel lines 516-521)
ContainerToggle ==
  HostChange([Configuration EXCEPT !.dynamicContainerSize = ~dynamicContainerSize])

InitHost == MountedAt(HostDefaults)

NextHost ==
  \/ ParticleCountSlider
  \/ ParticleSizeSlider
  \/ ContainerToggle
  \/ Render

SpecHost == InitHost /\ [][NextHost]_vars

\* C32: after any sequence of changes made through the particle-count slider,
\* the particle-size slider and the container switch, with the density
\* warnings they cause handled, the particle count handed to the core is at
\* most maxAllowableParticles for the current radius and container size.
CountWithinMaximum == particleCount <= maxAllowableParticles


\* ---------------------------------------------------------------- C33
\* the currentSpeed state of App.tsx: handleSpeedUpdate (lines 100-102) stores
\* the value the latest processed tick handed to onSpeedUpdate
currentSpeed == lastTick.speed

\* updateSpeedHistory (App.tsx lines 136-141) for the currentSpeed of the
\* render that created it
updateSpeedHistory(speed) ==
  /\ speedHistory' = LastOf(Append(speedHistory, speed), HistoryLimit)
  /\ lastSample' = [at |-> now, count |-> lastSample.count + 1]

\* the speed-history effect (App.tsx lines 126-157) while playing: it runs
\* after a render in which currentSpeed differs from the render before,
\* clears the interval, appends a sample at once and starts a new interval
SpeedHistoryEffect ==
  /\ currentSpeed # renderedSpeed
  /\ renderedSpeed' = currentSpeed
  /\ updateSpeedHistory(currentSpeed)
  /\ speedTimerDue' = now + SpeedSamplePeriod
  /\ UNCHANGED <<now, props, engine, refs, reactState, observed, diagnostics>>

\* the interval of the speed-history effect fires (App.tsx line 147); a
\* timer that fires late is followed by a full period
SpeedInterval ==
  /\ now >= speedTimerDue
  /\ updateSpeedHistory(renderedSpeed)
  /\ speedTimerDue' = now + SpeedSamplePeriod
  /\ UNCHANGED <<now, props, engine, refs, reactState, observed, diagnostics, renderedSpeed>>

\* SpecHistory: processed ticks, engine steps and the clock, with the host's
\* speed-history effect and its interval
NextHistory ==
  \/ FrameStep(ShortRunFrames)
  \/ \E i \in Particles, vel \in EngineVelocities : EngineStep(i, vel)
  \/ Tick(ClockStep, StartTime + ClockStep * MaxClockSteps)
  \/ SpeedHistoryEffect
  \/ SpeedInterval

SpecHistory == Init /\ [][NextHistory]_vars

\* C33: while the simulation is playing the host appends at most one sample
\* per 500 ms to the speed history, however often onSpeedUpdate delivers a
\* changed value, and the history never holds more than 100 samples.
SpeedHistorySampled ==
  /\ [](Len(speedHistory) <= HistoryLimit)
  /\ [][ lastSample'.count # lastSample.count
           => now' - lastSample.at >= SpeedSamplePeriod ]_vars


\* ---------------------------------------------------------------- C34
\* C34: in every processed tick, also after the population was reinitialised
\* to a smaller particle count, the particles marked colliding (a status
\* created or refreshed, a collision counted) are particles of the current
\* population, ids 0 .. particleCount - 1.
MarksWithinPopulation ==
  [][ ProcessedTickStep
        => /\ \A k \in 1 .. Len(lastTick'.marks) : lastTick'.marks[k].id \in Particles
           /\ DOMAIN particleCollisionStatus' \subseteq Particles ]_vars


\* ---------------------------------------------------------------- C35
\* the ids for which the second pass of the tick called handleParticleCollision
SecondPassMarks(tick) ==
  { tick.marks[k].id : k \in (tick.firstMarks + 1) .. Len(tick.marks) }

\* the original statement of C35: a particle is marked colliding by the second
\* pass only if another particle's centre lies within
\* proximityThreshold + 2 x radius of its own centre
PairwiseMarksHaveNeighbour ==
  [][ ProcessedTickStep
        => \A i \in SecondPassMarks(lastTick') :
             /\ i \in Particles
             /\ \E o \in Particles \ {i} : Touching(i, o) ]_vars

\* C35: a particle is marked colliding by the second pass of a tick only if it
\* is a collision candidate of that tick, or its recorded position lies less
\* than proximityThreshold + 2 x radius from the recorded position of another
\* particle that is a candidate of that tick; a candidate is marked whether
\* or not any particle is near it
PairwiseMarksCandidateOrNear ==
  [][ ProcessedTickStep
        => \A i \in SecondPassMarks(lastTick') :
             \/ i \in lastTick'.potential
             \/ \E c \in lastTick'.potential \ {i} :
                  /\ i \in DOMAIN particlePositions'
                  /\ c \in DOMAIN particlePositions'
                  /\ Dist2(particlePositions'[i], particlePositions'[c])
                       < (proximityThreshold + 2 * particleRadius)
                           * (proximityThreshold + 2 * particleRadius) ]_vars

\* C35 happens: the second pass has marked a candidate, and counted a
\* collision for it, while no other particle was within the pairing distance
LoneCandidateMarked ==
  \E c \in lastTick.potential \cap Particles :
    /\ \E k \in (lastTick.firstMarks + 1) .. Len(lastTick.marks) :
         lastTick.marks[k] = [id |-> c, added |-> 1]
    /\ \A o \in Particles \ {c} : ~Touching(c, o)
    /\ particlePositions = translation


\* ---------------------------------------------------------------- C36
\* what the marks of particle i among the first k marks added to the counter
RECURSIVE AddedFor(_, _, _)
AddedFor(marks, k, i) ==
  IF k = 0 THEN 0
  ELSE (IF marks[k].id = i THEN marks[k].added ELSE 0) + AddedFor(marks, k - 1, i)

\* how often the tick marked particle i
TimesMarked(tick, i) == Cardinality({ k \in DOMAIN tick.marks : tick.marks[k].id = i })

\* the original statement of C36: within one processed tick each particle
\* adds at most 1 to the collision counter, however many times it is marked
OneCountPerParticle ==
  [][ ProcessedTickStep
        => \A i \in DOMAIN particleCollisionStatus' :
             AddedFor(lastTick'.marks, Len(lastTick'.marks), i) <= 1 ]_vars

\* C36: within one processed tick whose frame callback takes no longer than
\* collisionFadeDuration, each particle adds at most 1 to the collision
\* counter, however many times it is marked in that tick (invalid velocity,
\* wall hit, candidate, partner of candidates)
OneCountPerParticleInTime ==
  [][ (ProcessedTickStep /\ now' - now <= collisionFadeDuration)
        => \A i \in DOMAIN particleCollisionStatus' :
             AddedFor(lastTick'.marks, Len(lastTick'.marks), i) <= 1 ]_vars

\* C36 happens: a tick has marked one particle at the wall and as a candidate,
\* or as a candidate and as the partner of the other candidate, and each
\* particle marked more than once added 1
MarkedRepeatedlyCountedOnce ==
  /\ \E i \in Particles :
       /\ TimesMarked(lastTick, i) >= 2
       /\ i \in lastTick.potential
       /\ i \in lastTick.walls \/ lastTick.potential = Particles
       /\ AddedFor(lastTick.marks, Len(lastTick.marks), i) = 1
  /\ \A i \in Particles :
       TimesMarked(lastTick, i) >= 2 => AddedFor(lastTick.marks, Len(lastTick.marks), i) = 1


\* ---------------------------------------------------------------- C37
\* C37: the value handed to onSpeedUpdate in every processed tick is a finite
\* number >= 0, and it is 0 when no particle was sampled.
SpeedReportFinite ==
  [][ ProcessedTickStep
        => /\ IsFinite(lastTick'.speed)
           /\ lastTick'.speed >= 0
           /\ (Particles \subseteq deadHandles => lastTick'.speed = 0) ]_vars

====
